---------------------------- MODULE Spec2Model ----------------------------
(***************************************************************************)
(* Model of the OD-Automation missed-lecture resolution code.              *)
(*                                                                         *)
(* The repository holds two variants of the resolution pipeline in         *)
(* src/app/od-generator/page.tsx:                                          *)
(*   - lines 379-709, working on a nested timetable                        *)
(*     (program -> semester -> section) with numeric time slots; the       *)
(*     clashing names carry the suffix _Nested here;                       *)
(*   - lines 711-976, working on the "Programs" timetable with string      *)
(*     time slots and lab groups; the clashing names carry the suffix      *)
(*     _Programs here.                                                     *)
(*                                                                         *)
(* A JavaScript string is modelled as a sequence of characters, each       *)
(* character being a one-character TLA+ string; the en dash U+2013 is the  *)
(* token EnDash.  The value undefined of an optional string is the         *)
(* sequence Undefined, which no character sequence equals.                 *)
(***************************************************************************)
EXTENDS Integers, Sequences, FiniteSets, TLC

VARIABLES
    pc,       \* "ready" before the operation under check is called, "done"
              \* after; "page" while the OD generator page is running
    input,    \* the arguments of the call
    output,   \* [fn |-> the operation that ran, value |-> what it returned]
    \* The state of ODGeneratorPage (page.tsx:36-45); null is Null.
    eventData,
    isLoading,
    error,
    success,
    gmailWarning,
    showMailModal,
    mailSubject,
    mailBody,
    copyButtonText,
    \* The surroundings of the page.
    upload,       \* the file parseExcel is working on, Null when none
    copyTimers,   \* the pending timeouts of handleCopyMail
    effect        \* the latest window, clipboard text or workbook produced

callVars == <<pc, input, output>>

pageVars == <<eventData, isLoading, error, success, gmailWarning,
              showMailModal, mailSubject, mailBody, copyButtonText,
              upload, copyTimers, effect>>

vars == <<callVars, pageVars>>

NoOutput == [fn |-> "none", value |-> <<>>]

\* A nullable value is Null or Some(v).
Null == <<>>
Some(v) == <<v>>

EmptyText == [text |-> ""]

\* The page as useState initialises it (page.tsx:36-45).
PageIdle ==
    /\ eventData = Null
    /\ isLoading = FALSE
    /\ error = Null
    /\ success = Null
    /\ gmailWarning = Null
    /\ showMailModal = FALSE
    /\ mailSubject = EmptyText
    /\ mailBody = EmptyText
    /\ copyButtonText = "Copy to Clipboard"
    /\ upload = Null
    /\ copyTimers = 0
    /\ effect = Null

---------------------------------------------------------------------------
(* Bounds of the model.                                                    *)

MaxHour == 24
MaxMinute == 60
MaxGap == 1
MaxPad == 1
MaxRanges == 2
MaxPoint == 4
MaxStudents == 2
MaxSlots == 2
MaxTimers == 1
MaxWord == 3
MaxKeys == 3

---------------------------------------------------------------------------
(* Characters and the JavaScript string primitives the code uses.          *)

EnDash == "ndash"
Undefined == <<"undefined">>

Digits == <<"0", "1", "2", "3", "4", "5", "6", "7", "8", "9">>

LowerLetters ==
    <<"a", "b", "c", "d", "e", "f", "g", "h", "i", "j", "k", "l", "m",
      "n", "o", "p", "q", "r", "s", "t", "u", "v", "w", "x", "y", "z">>

UpperLetters ==
    <<"A", "B", "C", "D", "E", "F", "G", "H", "I", "J", "K", "L", "M",
      "N", "O", "P", "Q", "R", "S", "T", "U", "V", "W", "X", "Y", "Z">>

DigitValueOf ==
    [c \in {Digits[i] : i \in 1..10} |-> (CHOOSE i \in 1..10 : Digits[i] = c) - 1]

UpperOf ==
    [c \in {LowerLetters[i] : i \in 1..26} |->
        UpperLetters[CHOOSE i \in 1..26 : LowerLetters[i] = c]]

LowerOf ==
    [c \in {UpperLetters[i] : i \in 1..26} |->
        LowerLetters[CHOOSE i \in 1..26 : UpperLetters[i] = c]]

IsDigit(c) == c \in DOMAIN DigitValueOf

DigitValue(c) == DigitValueOf[c]

IsSpace(c) == c = " "

toUpperCaseChar(c) == IF c \in DOMAIN UpperOf THEN UpperOf[c] ELSE c

toLowerCaseChar(c) == IF c \in DOMAIN LowerOf THEN LowerOf[c] ELSE c

toUpperCase(s) == [i \in 1..Len(s) |-> toUpperCaseChar(s[i])]

toLowerCase(s) == [i \in 1..Len(s) |-> toLowerCaseChar(s[i])]

\* s without its leading, resp. trailing, whitespace; the model's only
\* whitespace character is the blank.
RECURSIVE trimStart(_)
trimStart(s) ==
    IF s # <<>> /\ IsSpace(Head(s)) THEN trimStart(Tail(s)) ELSE s

RECURSIVE trimEnd(_)
trimEnd(s) ==
    IF s # <<>> /\ IsSpace(s[Len(s)])
    THEN trimEnd(SubSeq(s, 1, Len(s) - 1)) ELSE s

\* String.prototype.trim
trim(s) == trimEnd(trimStart(s))

AllDigits(s) == \A i \in 1..Len(s) : IsDigit(s[i])

\* parseInt(s, 10) of a string of decimal digits.
RECURSIVE parseInt(_)
parseInt(s) ==
    IF Len(s) = 0 THEN 0
    ELSE parseInt(SubSeq(s, 1, Len(s) - 1)) * 10 + DigitValue(s[Len(s)])

---------------------------------------------------------------------------
(* parseTimeToMinutes, page.tsx:489-525.                                   *)

\* /^(\d{1,2}):(\d{2})$/
match24(s) ==
    LET n == Len(s)
    IN  /\ n \in {4, 5}
        /\ s[n - 2] = ":"
        /\ AllDigits(SubSeq(s, 1, n - 3))
        /\ AllDigits(SubSeq(s, n - 1, n))

\* /^(\d{1,2}):(\d{2})\s*(AM|PM)$/
match12(s) ==
    LET n == Len(s)
    IN  /\ n >= 6
        /\ SubSeq(s, n - 1, n) \in {<<"A", "M">>, <<"P", "M">>}
        /\ match24(trimEnd(SubSeq(s, 1, n - 2)))

\* The two capture groups of the clock part of a matched string.
hourGroup(s) == SubSeq(s, 1, Len(s) - 3)
minuteGroup(s) == SubSeq(s, Len(s) - 1, Len(s))

inClockRange(hours, minutes) ==
    hours >= 0 /\ hours <= 23 /\ minutes >= 0 /\ minutes <= 59

parse12(cleaned) ==
    LET clock == trimEnd(SubSeq(cleaned, 1, Len(cleaned) - 2))
        period == SubSeq(cleaned, Len(cleaned) - 1, Len(cleaned))
        h0 == parseInt(hourGroup(clock))
        minutes == parseInt(minuteGroup(clock))
        hours == IF period = <<"P", "M">> /\ h0 # 12 THEN h0 + 12
                 ELSE IF period = <<"A", "M">> /\ h0 = 12 THEN 0
                 ELSE h0
    IN  IF inClockRange(hours, minutes) THEN hours * 60 + minutes ELSE -1

parseTimeToMinutes(timeStr) ==
    IF timeStr = <<>> THEN -1
    ELSE LET cleaned == toUpperCase(trim(timeStr))
         IN  IF /\ match24(cleaned)
                /\ inClockRange(parseInt(hourGroup(cleaned)),
                                parseInt(minuteGroup(cleaned)))
             THEN parseInt(hourGroup(cleaned)) * 60
                    + parseInt(minuteGroup(cleaned))
             ELSE IF match12(cleaned) THEN parse12(cleaned)
             ELSE -1

---------------------------------------------------------------------------
(* String.prototype.split for the separators the code uses.                *)

\* Length of the separator of the given kind that starts at s[i], or 0.
\*   "slot"   /[_,|]/          page.tsx:457
\*   "range"  /[ndash\-]|to/i  page.tsx:463
\*   "blank"  /[_\s]+/         page.tsx:799 (runs collapse in splitRuns)
\*   "ndash"  the en dash      page.tsx:801, 956
\*   "colon"  ':'              page.tsx:974
\*   "space"  ' '              normalizeData.ts:70
separatorAt(s, i, kind) ==
    CASE kind = "slot" -> IF s[i] \in {"_", ",", "|"} THEN 1 ELSE 0
      [] kind = "range" ->
            IF s[i] \in {EnDash, "-"} THEN 1
            ELSE IF /\ i + 1 <= Len(s)
                    /\ toLowerCaseChar(s[i]) = "t"
                    /\ toLowerCaseChar(s[i + 1]) = "o"
                 THEN 2
            ELSE 0
      [] kind = "blank" -> IF s[i] = "_" \/ IsSpace(s[i]) THEN 1 ELSE 0
      [] kind = "ndash" -> IF s[i] = EnDash THEN 1 ELSE 0
      [] kind = "colon" -> IF s[i] = ":" THEN 1 ELSE 0
      [] kind = "space" -> IF s[i] = " " THEN 1 ELSE 0

RECURSIVE splitFrom(_, _, _, _)
splitFrom(s, i, cur, kind) ==
    IF i > Len(s) THEN <<cur>>
    ELSE LET d == separatorAt(s, i, kind)
         IN  IF d > 0 THEN <<cur>> \o splitFrom(s, i + d, <<>>, kind)
             ELSE splitFrom(s, i + 1, Append(cur, s[i]), kind)

split(s, kind) == splitFrom(s, 1, <<>>, kind)

\* split(/[_\s]+/).filter(Boolean): the non-empty pieces between separators.
splitRuns(s, kind) == SelectSeq(split(s, kind), LAMBDA piece : piece # <<>>)

mapTrim(parts) == [i \in 1..Len(parts) |-> trim(parts[i])]

RECURSIVE flatten(_)
flatten(seqs) ==
    IF Len(seqs) = 0 THEN <<>> ELSE Head(seqs) \o flatten(Tail(seqs))

---------------------------------------------------------------------------
(* parseEventTimeSlots of the nested-timetable variant, page.tsx:446-482:  *)
(* numeric slots, one per range whose two endpoints parse.                 *)

slotOfRange_Nested(range) ==
    LET timeParts == mapTrim(split(range, "range"))
    IN  IF Len(timeParts) >= 2
        THEN LET startTime == parseTimeToMinutes(timeParts[1])
                 endTime == parseTimeToMinutes(timeParts[2])
             IN  IF startTime # -1 /\ endTime # -1
                 THEN <<[start |-> startTime, end |-> endTime]>>
                 ELSE <<>>
        ELSE <<>>

parseEventTimeSlots_Nested(eventTime) ==
    IF eventTime = <<>> THEN <<>>
    ELSE LET timeRanges == mapTrim(split(eventTime, "slot"))
         IN  flatten([i \in 1..Len(timeRanges) |->
                        slotOfRange_Nested(timeRanges[i])])

(* parseEventTimeSlots of the Programs variant, page.tsx:796-804: string   *)
(* slots, one per piece; a piece without an en dash has end = undefined.   *)

slotOfPiece_Programs(slot) ==
    LET parts == mapTrim(split(slot, "ndash"))
    IN  [start |-> parts[1],
         end |-> IF Len(parts) >= 2 THEN parts[2] ELSE Undefined]

parseEventTimeSlots_Programs(eventTime) ==
    IF eventTime = <<>> THEN <<>>
    ELSE LET slots == splitRuns(eventTime, "blank")
         IN  [i \in 1..Len(slots) |-> slotOfPiece_Programs(slots[i])]

---------------------------------------------------------------------------
(* parseLectureTime and hasTimeOverlap, page.tsx:606-677.                  *)

WeekdayNames ==
    {<<"m", "o", "n", "d", "a", "y">>,
     <<"t", "u", "e", "s", "d", "a", "y">>,
     <<"w", "e", "d", "n", "e", "s", "d", "a", "y">>,
     <<"t", "h", "u", "r", "s", "d", "a", "y">>,
     <<"f", "r", "i", "d", "a", "y">>,
     <<"s", "a", "t", "u", "r", "d", "a", "y">>,
     <<"s", "u", "n", "d", "a", "y">>}

\* /^(monday|...|sunday)\s+(.+)$/i : the length of the weekday the string
\* starts with, when blanks and then something else follow it; 0 otherwise.
dayMatch(cleaned) ==
    LET fits == {d \in WeekdayNames :
                    /\ Len(cleaned) > Len(d) + 1
                    /\ toLowerCase(SubSeq(cleaned, 1, Len(d))) = d
                    /\ IsSpace(cleaned[Len(d) + 1])
                    /\ trimStart(SubSeq(cleaned, Len(d) + 1, Len(cleaned)))
                          # <<>>}
    IN  IF fits = {} THEN 0 ELSE Len(CHOOSE d \in fits : TRUE)

\* /^(\d{1,2}:\d{2})\s*[ndash\-]\s*(\d{1,2}:\d{2})$/ : the position of the
\* dash when the string matches, 0 otherwise.
timeRangeMatch(timeStr) ==
    LET dashes == {i \in 1..Len(timeStr) : timeStr[i] \in {EnDash, "-"}}
    IN  IF Cardinality(dashes) # 1 THEN 0
        ELSE LET i == CHOOSE j \in dashes : TRUE
             IN  IF /\ match24(trimEnd(SubSeq(timeStr, 1, i - 1)))
                    /\ match24(trimStart(SubSeq(timeStr, i + 1, Len(timeStr))))
                 THEN i ELSE 0

NullLectureTime == [ok |-> FALSE, day |-> <<>>, start |-> -1, end |-> -1]

parseLectureTime(lectureTime) ==
    IF lectureTime = <<>> THEN NullLectureTime
    ELSE LET cleaned == trim(lectureTime)
             dayLen == dayMatch(cleaned)
             day == SubSeq(cleaned, 1, dayLen)
             timeStr == IF dayLen > 0
                        THEN trimStart(SubSeq(cleaned, dayLen + 1, Len(cleaned)))
                        ELSE cleaned
             dash == timeRangeMatch(timeStr)
         IN  IF dash = 0 THEN NullLectureTime
             ELSE LET startTime == parseTimeToMinutes(
                                      trimEnd(SubSeq(timeStr, 1, dash - 1)))
                      endTime == parseTimeToMinutes(
                                   trimStart(SubSeq(timeStr, dash + 1,
                                                    Len(timeStr))))
                  IN  IF startTime = -1 \/ endTime = -1 THEN NullLectureTime
                      ELSE [ok |-> TRUE, day |-> day,
                            start |-> startTime, end |-> endTime]

\* The closed-interval test, which also counts intervals that only touch.
slotOverlap_Closed(lectureTimeInfo, eventSlot) ==
    /\ lectureTimeInfo.start <= eventSlot.end
    /\ lectureTimeInfo.end >= eventSlot.start

slotOverlap_Nested(lectureTimeInfo, eventSlot) ==
    /\ lectureTimeInfo.start < eventSlot.end
    /\ lectureTimeInfo.end > eventSlot.start

\* The overlap test without the day comparison of page.tsx:617-620.
hasTimeOverlap_NoDayGate(lectureTime, eventSlots, eventDay) ==
    IF lectureTime = <<>> \/ Len(eventSlots) = 0 THEN FALSE
    ELSE LET lectureTimeInfo == parseLectureTime(lectureTime)
         IN  IF ~lectureTimeInfo.ok THEN FALSE
             ELSE \E i \in 1..Len(eventSlots) :
                      slotOverlap_Nested(lectureTimeInfo, eventSlots[i])

hasTimeOverlap(lectureTime, eventSlots, eventDay) ==
    IF lectureTime = <<>> \/ Len(eventSlots) = 0 THEN FALSE
    ELSE LET lectureTimeInfo == parseLectureTime(lectureTime)
         IN  IF ~lectureTimeInfo.ok THEN FALSE
             ELSE IF /\ lectureTimeInfo.day # <<>>
                     /\ toLowerCase(lectureTimeInfo.day) # toLowerCase(eventDay)
                  THEN FALSE
             ELSE \E i \in 1..Len(eventSlots) :
                      slotOverlap_Nested(lectureTimeInfo, eventSlots[i])

---------------------------------------------------------------------------
(* timeToMinutes and isTimeOverlapping, page.tsx:953-976.  A JavaScript    *)
(* number is <<n>>, NaN is <<>>.                                           *)

NaN == <<>>

\* Number(s) for the strings the model's alphabet can form: blanks are
\* trimmed, the empty string is 0, an optionally signed run of digits is
\* its value, everything else NaN.
Number(s) ==
    LET t == trim(s)
    IN  IF t = <<>> THEN <<0>>
        ELSE IF AllDigits(t) THEN <<parseInt(t)>>
        ELSE IF Len(t) >= 2 /\ t[1] = "+" /\ AllDigits(Tail(t))
             THEN <<parseInt(Tail(t))>>
        ELSE IF Len(t) >= 2 /\ t[1] = "-" /\ AllDigits(Tail(t))
             THEN <<0 - parseInt(Tail(t))>>
        ELSE NaN

\* const [hours, minutes] = time.split(':').map(Number); hours*60+minutes
timeToMinutes(time) ==
    LET parts == split(time, "colon")
        hours == Number(parts[1])
        minutes == IF Len(parts) >= 2 THEN Number(parts[2]) ELSE NaN
    IN  IF hours = NaN \/ minutes = NaN THEN NaN
        ELSE <<hours[1] * 60 + minutes[1]>>

lessThan(a, b) == a # NaN /\ b # NaN /\ a[1] < b[1]

\* [threw |-> a TypeError was raised, value |-> the boolean returned]
isTimeOverlapping(eventSlot, lectureTime) ==
    IF lectureTime = <<>> THEN [threw |-> FALSE, value |-> FALSE]
    ELSE LET parts == mapTrim(split(lectureTime, "ndash"))
             lectureStart == parts[1]
             lectureEnd == IF Len(parts) >= 2 THEN parts[2] ELSE Undefined
         IN  IF eventSlot.end = Undefined \/ lectureEnd = Undefined
             THEN [threw |-> TRUE, value |-> FALSE]
             ELSE [threw |-> FALSE,
                   value |->
                      /\ lessThan(timeToMinutes(eventSlot.start),
                                  timeToMinutes(lectureEnd))
                      /\ lessThan(timeToMinutes(lectureStart),
                                  timeToMinutes(eventSlot.end))]

---------------------------------------------------------------------------
(* findProgramKey, page.tsx:912-945.  timetable.Programs is the sequence   *)
(* of its entries in key order (the order of Object.keys).                 *)

\* String.prototype.includes
includes(hay, needle) ==
    \E i \in 1..(Len(hay) - Len(needle) + 1) :
        SubSeq(hay, i, i + Len(needle) - 1) = needle

\* s.replace(pattern, by) for a literal, non-global pattern: the leftmost
\* occurrence is replaced.
replaceFirst(s, pattern, by) ==
    LET hits == {i \in 1..(Len(s) - Len(pattern) + 1) :
                    SubSeq(s, i, i + Len(pattern) - 1) = pattern}
    IN  IF hits = {} THEN s
        ELSE LET i == CHOOSE j \in hits : \A k \in hits : j <= k
             IN  SubSeq(s, 1, i - 1) \o by
                    \o SubSeq(s, i + Len(pattern), Len(s))

\* s.replace(/b\.?tech/i, 'btech') on a lowercased string: the leftmost
\* "b.tech" or "btech" becomes "btech".
replaceBTech(s) ==
    LET dotted == <<"b", ".", "t", "e", "c", "h">>
        plain == <<"b", "t", "e", "c", "h">>
        at(i, p) == i + Len(p) - 1 <= Len(s) /\ SubSeq(s, i, i + Len(p) - 1) = p
        hits == {i \in 1..Len(s) : at(i, dotted) \/ at(i, plain)}
    IN  IF hits = {} THEN s
        ELSE LET i == CHOOSE j \in hits : \A k \in hits : j <= k
                 n == IF at(i, dotted) THEN Len(dotted) ELSE Len(plain)
             IN  SubSeq(s, 1, i - 1) \o plain \o SubSeq(s, i + n, Len(s))

\* s.replace(/\s+/g, '') and s.replace(/[()]/g, '')
removeBlanks(s) == SelectSeq(s, LAMBDA c : ~IsSpace(c))
removeParens(s) == SelectSeq(s, LAMBDA c : c \notin {"(", ")"})

\* s.replace(/\s*\([^)]*\)\s*/g, ''): every parenthesised group goes, with
\* the blanks around it.
RECURSIVE removeParenGroups(_)
removeParenGroups(s) ==
    LET opens == {i \in 1..Len(s) :
                    s[i] = "(" /\ \E j \in (i + 1)..Len(s) : s[j] = ")"}
    IN  IF opens = {} THEN s
        ELSE LET open == CHOOSE i \in opens : \A k \in opens : i <= k
                 close == CHOOSE j \in (open + 1)..Len(s) :
                            /\ s[j] = ")"
                            /\ \A k \in (open + 1)..(j - 1) : s[k] # ")"
             IN  trimEnd(SubSeq(s, 1, open - 1))
                    \o removeParenGroups(trimStart(SubSeq(s, close + 1, Len(s))))

keyVariations(keyLower) ==
    {keyLower,
     removeBlanks(keyLower),
     removeParens(keyLower),
     removeParenGroups(keyLower),
     replaceBTech(keyLower),
     replaceFirst(keyLower, <<"b", "t", "e", "c", "h">>,
                  <<"b", ".", "t", "e", "c", "h">>),
     replaceFirst(keyLower, <<"c", "s", "e">>,
                  <<"c", "o", "m", "p", "u", "t", "e", "r", " ",
                    "s", "c", "i", "e", "n", "c", "e">>),
     replaceFirst(keyLower, <<"i", "t">>,
                  <<"i", "n", "f", "o", "r", "m", "a", "t", "i", "o", "n", " ",
                    "t", "e", "c", "h", "n", "o", "l", "o", "g", "y">>),
     replaceFirst(keyLower, <<"b", "c", "a">>,
                  <<"b", "a", "c", "h", "e", "l", "o", "r", " ", "o", "f", " ",
                    "c", "o", "m", "p", "u", "t", "e", "r", " ",
                    "a", "p", "p", "l", "i", "c", "a", "t", "i", "o", "n", "s">>)}

fuzzyKeyMatch(key, normalizedProgram) ==
    LET programLower == toLowerCase(normalizedProgram)
    IN  \E variant \in keyVariations(toLowerCase(key)) :
            includes(variant, programLower) \/ includes(programLower, variant)

\* Array.prototype.find over indices: the first index that satisfies, or 0.
firstIndex(tests) ==
    LET hits == {i \in 1..Len(tests) : tests[i]}
    IN  IF hits = {} THEN 0 ELSE CHOOSE i \in hits : \A k \in hits : i <= k

\* The index of the program findProgramKey returns, 0 for null.
findProgramKey(normalizedProgram, timetable) ==
    LET programs == timetable.Programs
        exactMatch == firstIndex([i \in 1..Len(programs) |->
                          toLowerCase(programs[i].key)
                              = toLowerCase(normalizedProgram)])
        fuzzyMatch == firstIndex([i \in 1..Len(programs) |->
                          fuzzyKeyMatch(programs[i].key, normalizedProgram)])
    IN  IF exactMatch # 0 THEN exactMatch ELSE fuzzyMatch

---------------------------------------------------------------------------
(* findMissedLecturesForStudent and calculateMissedLectures of the         *)
(* Programs variant, page.tsx:739-904.  A result is                        *)
(* [threw |-> a TypeError escaped, value |-> what was returned].           *)

labGroupMatches(student, lab) ==
    IF student.group # <<>>
    THEN lab.group = <<"G", "r", "o", "u", "p", " ">> \o student.group
    ELSE TRUE

missedCourse(course, eventDay) ==
    [subject_code |-> course.subject_code,
     subject_name |-> course.subject_name,
     faculty |-> course.faculty,
     faculty_code |-> course.faculty_code,
     time |-> course.time,
     group |-> <<>>,
     day |-> eventDay]

missedLab(lab, eventDay) ==
    [subject_code |-> lab.subject_code,
     subject_name |-> lab.subject_name,
     faculty |-> lab.faculty,
     faculty_code |-> lab.faculty_code,
     time |-> lab.time,
     group |-> lab.group,
     day |-> eventDay]

overlappingCourses(eventSlot, dayCourses) ==
    SelectSeq(dayCourses,
           LAMBDA course : isTimeOverlapping(eventSlot, course.time).value)

overlappingLabs(student, eventSlot, dayLabs) ==
    SelectSeq(dayLabs,
           LAMBDA lab : /\ isTimeOverlapping(eventSlot, lab.time).value
                        /\ labGroupMatches(student, lab))

\* A slot's entries when the lab group test is applied to courses as well.
missedInSlot_GroupFilteredCourses(student, eventSlot, eventDay, dayCourses, dayLabs) ==
    LET courses == SelectSeq(overlappingCourses(eventSlot, dayCourses),
                          LAMBDA course : labGroupMatches(student, course))
        labs == overlappingLabs(student, eventSlot, dayLabs)
    IN  [i \in 1..Len(courses) |-> missedCourse(courses[i], eventDay)]
            \o [i \in 1..Len(labs) |-> missedLab(labs[i], eventDay)]

missedInSlot(student, eventSlot, eventDay, dayCourses, dayLabs) ==
    LET courses == overlappingCourses(eventSlot, dayCourses)
        labs == overlappingLabs(student, eventSlot, dayLabs)
    IN  [i \in 1..Len(courses) |-> missedCourse(courses[i], eventDay)]
            \o [i \in 1..Len(labs) |-> missedLab(labs[i], eventDay)]

findSection(program, name) ==
    firstIndex([i \in 1..Len(program.Sections) |->
                   program.Sections[i].name = name])

findMissedLecturesForStudent_Programs(student, eventSlots, eventDay, timetable) ==
    LET programKey == findProgramKey(student.normalizedProgram, timetable)
    IN  IF programKey = 0 THEN [threw |-> FALSE, value |-> <<>>]
        ELSE
        LET program == timetable.Programs[programKey]
            sectionAt == findSection(program, student.section)
        IN  IF sectionAt = 0 THEN [threw |-> FALSE, value |-> <<>>]
            ELSE
            LET section == program.Sections[sectionAt]
                dayCourses == SelectSeq(section.Courses,
                                     LAMBDA course : course.day = eventDay)
                dayLabs == SelectSeq(section.Labs, LAMBDA lab : lab.day = eventDay)
                entries == dayCourses \o dayLabs
            IN  IF \E i \in 1..Len(eventSlots), j \in 1..Len(entries) :
                      isTimeOverlapping(eventSlots[i], entries[j].time).threw
                THEN [threw |-> TRUE, value |-> <<>>]
                ELSE [threw |-> FALSE,
                      value |-> flatten([i \in 1..Len(eventSlots) |->
                                  missedInSlot(student, eventSlots[i], eventDay,
                                               dayCourses, dayLabs)])]

\* { ...student, missedLectures }
withMissedLectures(student, missedLectures) ==
    [f \in DOMAIN student \cup {"missedLectures"} |->
        IF f = "missedLectures" THEN missedLectures ELSE student[f]]

calculateMissedLectures_Programs(students, eventTime, eventDay, timetable) ==
    LET eventSlots == parseEventTimeSlots_Programs(eventTime)
        found == [i \in 1..Len(students) |->
                    findMissedLecturesForStudent_Programs(
                        students[i], eventSlots, eventDay, timetable)]
    IN  IF \E i \in 1..Len(students) : found[i].threw
        THEN [threw |-> TRUE, value |-> <<>>]
        ELSE [threw |-> FALSE,
              value |-> [i \in 1..Len(students) |->
                            withMissedLectures(students[i], found[i].value)]]

---------------------------------------------------------------------------
(* findMissedLecturesForStudent and calculateMissedLectures of the nested  *)
(* variant, page.tsx:389-439 and 535-597.  The timetable is a function     *)
(* program -> semester -> section -> [courses, labs].                      *)

missedEntry_Nested(entry, type) ==
    [subject_name |-> entry.subject_name,
     faculty |-> entry.faculty,
     time |-> entry.time,
     room |-> entry.room,
     type |-> type]

overlapping_Nested(entries, eventSlots, eventDay, type) ==
    LET hit == SelectSeq(entries,
                      LAMBDA e : hasTimeOverlap(e.time, eventSlots, eventDay))
    IN  [i \in 1..Len(hit) |-> missedEntry_Nested(hit[i], type)]

findMissedLecturesForStudent_Nested(student, eventSlots, eventDay, timetable) ==
    IF student.normalizedProgram \notin DOMAIN timetable THEN <<>>
    ELSE LET programTimetable == timetable[student.normalizedProgram]
         IN  IF student.semester \notin DOMAIN programTimetable THEN <<>>
             ELSE LET semesterTimetable == programTimetable[student.semester]
                  IN  IF student.section \notin DOMAIN semesterTimetable THEN <<>>
                      ELSE LET sectionTimetable ==
                                   semesterTimetable[student.section]
                           IN  overlapping_Nested(sectionTimetable.courses,
                                                  eventSlots, eventDay, "course")
                               \o overlapping_Nested(sectionTimetable.labs,
                                                     eventSlots, eventDay, "lab")

calculateMissedLectures_Nested(students, eventTime, eventDay, timetable) ==
    LET eventSlots == parseEventTimeSlots_Nested(eventTime)
    IN  [threw |-> FALSE,
         value |-> [i \in 1..Len(students) |->
                      withMissedLectures(
                          students[i],
                          findMissedLecturesForStudent_Nested(
                              students[i], eventSlots, eventDay, timetable))]]

---------------------------------------------------------------------------
(* processStudentsWithMissedLectures and doTimeRangesOverlap,              *)
(* unnamed/part_004:6-57 and 113-125.  >=, <, > and <= on two strings      *)
(* compare them by UTF-16 code units; with undefined on either side the    *)
(* comparison is false.                                                    *)

CodeUnitOrder ==
    <<" ", "(", ")", "+", ",", "-", ".">> \o Digits \o <<":">>
        \o UpperLetters \o <<"_">> \o LowerLetters \o <<EnDash>>

codeUnit(c) == CHOOSE i \in 1..Len(CodeUnitOrder) : CodeUnitOrder[i] = c

RECURSIVE stringLess(_, _)
stringLess(a, b) ==
    IF b = <<>> THEN FALSE
    ELSE IF a = <<>> THEN TRUE
    ELSE IF a[1] = b[1] THEN stringLess(Tail(a), Tail(b))
    ELSE codeUnit(a[1]) < codeUnit(b[1])

\* a < b and a <= b of JavaScript
before(a, b) == a # Undefined /\ b # Undefined /\ stringLess(a, b)
notAfter(a, b) == a # Undefined /\ b # Undefined /\ ~stringLess(b, a)

doTimeRangesOverlap(start1, end1, start2, end2) ==
    \/ notAfter(start2, start1) /\ before(start1, end2)
    \/ before(start2, end1) /\ notAfter(end1, end2)
    \/ notAfter(start1, start2) /\ notAfter(end2, end1)

\* const [a, b] = text.split(EN DASH).map(t => t.trim())
rangeEnds(text) ==
    LET parts == mapTrim(split(text, "ndash"))
    IN  [start |-> parts[1],
         end |-> IF Len(parts) >= 2 THEN parts[2] ELSE Undefined]

lectureOverlapsEvent(lecture, eventDay, eventTime) ==
    /\ lecture.day = eventDay
    /\ doTimeRangesOverlap(rangeEnds(lecture.time).start,
                           rangeEnds(lecture.time).end,
                           rangeEnds(eventTime).start,
                           rangeEnds(eventTime).end)

missedSchedule(lecture, type) ==
    [subject_code |-> lecture.subject_code,
     subject_name |-> lecture.subject_name,
     faculty |-> lecture.faculty,
     room |-> IF "room" \in DOMAIN lecture THEN lecture.room ELSE Undefined,
     time |-> lecture.time,
     day |-> lecture.day,
     type |-> type,
     group |-> lecture.group]

missedSchedules(lectures, type, eventDay, eventTime) ==
    LET hit == SelectSeq(lectures,
                   LAMBDA l : lectureOverlapsEvent(l, eventDay, eventTime))
    IN  [i \in 1..Len(hit) |-> missedSchedule(hit[i], type)]

\* { ...student, missedLectures, hasConflicts }
withConflicts(student, missedLectures) ==
    [f \in DOMAIN student \cup {"missedLectures", "hasConflicts"} |->
        IF f = "missedLectures" THEN missedLectures
        ELSE IF f = "hasConflicts" THEN Len(missedLectures) > 0
        ELSE student[f]]

processStudent(student, timetableData, eventDay, eventTime) ==
    LET programs == timetableData.Programs
        programAt == firstIndex([i \in 1..Len(programs) |->
                                    programs[i].key = student.program])
    IN  IF programAt = 0 THEN withConflicts(student, <<>>)
        ELSE
        LET sectionAt == findSection(programs[programAt], student.section)
        IN  IF sectionAt = 0 THEN withConflicts(student, <<>>)
            ELSE
            LET sectionData == programs[programAt].Sections[sectionAt]
            IN  withConflicts(student,
                    missedSchedules(sectionData.Courses, "Course",
                                    eventDay, eventTime)
                    \o missedSchedules(sectionData.Labs, "Lab",
                                       eventDay, eventTime))

processStudentsWithMissedLectures(students, timetableData, eventDate, eventDay, eventTime) ==
    [threw |-> FALSE,
     value |-> [i \in 1..Len(students) |->
                   processStudent(students[i], timetableData,
                                  eventDay, eventTime)]]

---------------------------------------------------------------------------
(* Inputs of parseTimeToMinutes: a clock text described by its parts.  The *)
(* description is what the claims speak about; the parser only ever sees   *)
(* the rendered characters.                                                *)

TwoDigits(n) == <<Digits[(n \div 10) + 1], Digits[(n % 10) + 1]>>

NumberText(n, width) ==
    IF width = 1 /\ n < 10 THEN <<Digits[n + 1]>> ELSE TwoDigits(n)

Spaces(k) == [i \in 1..k |-> " "]

PeriodTexts ==
    {<<>>, <<"A", "M">>, <<"P", "M">>, <<"p", "m">>, <<"X", "M">>}

ClockInputs ==
    [h : 0..MaxHour, hw : 1..2, m : 0..MaxMinute, mw : 1..2,
     gap : 0..MaxGap, period : PeriodTexts, pad : 0..MaxPad]

ClockText(c) ==
    Spaces(c.pad) \o NumberText(c.h, c.hw) \o <<":">> \o NumberText(c.m, c.mw)
        \o Spaces(c.gap) \o c.period \o Spaces(c.pad)

InitTime ==
    /\ pc = "ready"
    /\ input \in {c \in ClockInputs :
                    /\ (c.hw = 1 => c.h < 10)
                    /\ (c.mw = 1 => c.m < 10)
                    /\ (c.period = <<>> => c.gap = 0)}
    /\ output = NoOutput
    /\ PageIdle

CallParseTimeToMinutes ==
    /\ pc = "ready"
    /\ output' = [fn |-> "parseTimeToMinutes",
                  value |-> parseTimeToMinutes(ClockText(input))]
    /\ pc' = "done"
    /\ UNCHANGED input
    /\ UNCHANGED pageVars

NextTime == CallParseTimeToMinutes

SpecTime == InitTime /\ [][NextTime]_vars


---------------------------------------------------------------------------
(* What a clock text means, read off its description (not its characters). *)
ExpectedMinutes(c) ==
    IF c.mw # 2 \/ c.m > 59 THEN -1
    ELSE IF c.period = <<>>
         THEN IF c.h <= 23 THEN c.h * 60 + c.m ELSE -1
    ELSE IF toUpperCase(c.period) = <<"A", "M">> /\ c.h \in 1..12
         THEN (c.h % 12) * 60 + c.m
    ELSE IF toUpperCase(c.period) = <<"P", "M">> /\ c.h \in 1..12
         THEN ((c.h % 12) + 12) * 60 + c.m
    ELSE -1

\* C8: parseTimeToMinutes returns H*60+M for every 24-hour text H:MM or HH:MM
\* (0 <= H <= 23, 0 <= M <= 59), maps the 12-hour texts 12:MM AM to MM,
\* 12:MM PM to 720+MM and H:MM PM (1 <= H <= 11) to (H+12)*60+MM, and returns
\* -1 for every text that is not a valid time (surrounding blanks and the
\* letter case of AM|PM do not count).
C8_ParseTimeToMinutesContract ==
    (pc = "done" /\ output.fn = "parseTimeToMinutes")
        => output.value = ExpectedMinutes(input)


---------------------------------------------------------------------------
(* Inputs of parseEventTimeSlots: an event time described as a list of     *)
(* range expressions joined by one separator.                              *)

Clock(h, hw, m, gap, period) ==
    [h |-> h, hw |-> hw, m |-> m, mw |-> 2, gap |-> gap, period |-> period,
     pad |-> 0]

Endpoint(c) == [text |-> ClockText(c), minutes |-> ExpectedMinutes(c)]

Endpoints ==
    {Endpoint(Clock(9, 2, 15, 0, <<>>)),            \* "09:15"   555
     Endpoint(Clock(1, 1, 0, 1, <<"P", "M">>)),     \* "1:00 PM" 780
     Endpoint(Clock(24, 2, 0, 0, <<>>))}            \* "24:00"   not a time

DashTexts == {<<"-">>, <<EnDash>>, <<" ", "t", "o", " ">>, <<>>}

SlotSeparators == {<<"_">>, <<",">>, <<"|">>}

RangeExprs == [s : Endpoints, e : Endpoints, dash : DashTexts]

RangeText(r) == r.s.text \o r.dash \o r.e.text

\* A range expression is well formed when it has a dash and two endpoints
\* that are times.
RangeValid(r) == r.dash # <<>> /\ r.s.minutes # -1 /\ r.e.minutes # -1

RECURSIVE join(_, _)
join(texts, sep) ==
    IF Len(texts) = 0 THEN <<>>
    ELSE IF Len(texts) = 1 THEN texts[1]
    ELSE texts[1] \o sep \o join(Tail(texts), sep)

EventTimeText(ev) ==
    join([i \in 1..Len(ev.ranges) |-> RangeText(ev.ranges[i])], ev.sep)

EventInputs ==
    [ranges : UNION {[1..k -> RangeExprs] : k \in 1..MaxRanges},
     sep : SlotSeparators]

InitSlots ==
    /\ pc = "ready"
    /\ input \in EventInputs
    /\ output = NoOutput
    /\ PageIdle

CallParseEventTimeSlots_Nested ==
    /\ pc = "ready"
    /\ output' = [fn |-> "parseEventTimeSlots_Nested",
                  value |-> parseEventTimeSlots_Nested(EventTimeText(input))]
    /\ pc' = "done"
    /\ UNCHANGED input
    /\ UNCHANGED pageVars

CallParseEventTimeSlots_Programs ==
    /\ pc = "ready"
    /\ output' = [fn |-> "parseEventTimeSlots_Programs",
                  value |-> parseEventTimeSlots_Programs(EventTimeText(input))]
    /\ pc' = "done"
    /\ UNCHANGED input
    /\ UNCHANGED pageVars

NextSlots ==
    \/ CallParseEventTimeSlots_Nested
    \/ CallParseEventTimeSlots_Programs

SpecSlots == InitSlots /\ [][NextSlots]_vars

MinutesPerDay == 24 * 60

\* C7: every TimeSlot returned by parseEventTimeSlots has integer start and
\* end, in minutes since midnight, with 0 <= start < end < 1440.
C7_SlotsAreOrderedMinutes ==
    (pc = "done" /\ output.fn = "parseEventTimeSlots_Nested")
        => \A i \in 1..Len(output.value) :
              /\ output.value[i].start \in 0..(MinutesPerDay - 1)
              /\ output.value[i].end \in 0..(MinutesPerDay - 1)
              /\ output.value[i].start < output.value[i].end

\* The slots the well-formed range expressions of an event time denote, in
\* input order: as minutes, and as the trimmed endpoint texts.
ValidRanges(ev) == SelectSeq(ev.ranges, RangeValid)

ExpectedSlots_Nested(ev) ==
    [i \in 1..Len(ValidRanges(ev)) |->
        [start |-> ValidRanges(ev)[i].s.minutes,
         end |-> ValidRanges(ev)[i].e.minutes]]

ExpectedSlots_Programs(ev) ==
    [i \in 1..Len(ValidRanges(ev)) |->
        [start |-> trim(ValidRanges(ev)[i].s.text),
         end |-> trim(ValidRanges(ev)[i].e.text)]]

\* C9: for an event time made of range expressions separated by '_', ','
\* or '|', parseEventTimeSlots returns, in input order, exactly one slot for
\* each range expression whose two endpoints parse; a malformed range
\* expression changes nothing about the slots of the others.
C9_OneSlotPerWellFormedRange ==
    /\ (pc = "done" /\ output.fn = "parseEventTimeSlots_Nested")
            => output.value = ExpectedSlots_Nested(input)
    /\ (pc = "done" /\ output.fn = "parseEventTimeSlots_Programs")
            => output.value = ExpectedSlots_Programs(input)

\* The nested variant (page.tsx:446-482) alone does satisfy C9.
C9_HoldsForNested ==
    (pc = "done" /\ output.fn = "parseEventTimeSlots_Nested")
        => output.value = ExpectedSlots_Nested(input)


---------------------------------------------------------------------------
(* Inputs of the overlap tests: a schedule entry [ls, le) and an event     *)
(* slot [es, ee) on a grid of clock times, the entry written as            *)
(* "[day ]H:MM<dash>H:MM".                                                 *)

TimeOfPoint(k) == 8 * 60 + 55 * k     \* 08:00, 08:55, 09:50, 10:45, 11:40, ...

Monday == <<"M", "o", "n", "d", "a", "y">>
mondayLower == <<"m", "o", "n", "d", "a", "y">>
Tuesday == <<"T", "u", "e", "s", "d", "a", "y">>

MinutesText(t, hw) == NumberText(t \div 60, hw) \o <<":">> \o TwoDigits(t % 60)

OverlapInputs ==
    [ls : {TimeOfPoint(k) : k \in 0..MaxPoint},
     le : {TimeOfPoint(k) : k \in 0..MaxPoint},
     es : {TimeOfPoint(k) : k \in 0..MaxPoint},
     ee : {TimeOfPoint(k) : k \in 0..MaxPoint},
     hw : 1..2,
     dash : {<<"-">>, <<EnDash>>},
     day : {<<>>, Monday, mondayLower, Tuesday},
     eventDay : {Monday}]

LectureTimeText(x) ==
    (IF x.day = <<>> THEN <<>> ELSE x.day \o <<" ">>)
        \o MinutesText(x.ls, x.hw) \o x.dash \o MinutesText(x.le, x.hw)

InitOverlap ==
    /\ pc = "ready"
    /\ input \in OverlapInputs
    /\ output = NoOutput
    /\ PageIdle

CallHasTimeOverlap ==
    /\ pc = "ready"
    /\ output' = [fn |-> "hasTimeOverlap",
                  value |-> hasTimeOverlap(
                                LectureTimeText(input),
                                <<[start |-> input.es, end |-> input.ee]>>,
                                input.eventDay)]
    /\ pc' = "done"
    /\ UNCHANGED input
    /\ UNCHANGED pageVars

\* isTimeOverlapping gets the bare range: the Programs variant keeps the day
\* in a field of its own.
CallIsTimeOverlapping ==
    /\ pc = "ready"
    /\ input.day = <<>>
    /\ output' = [fn |-> "isTimeOverlapping",
                  value |-> isTimeOverlapping(
                                [start |-> MinutesText(input.es, input.hw),
                                 end |-> MinutesText(input.ee, input.hw)],
                                LectureTimeText(input))]
    /\ pc' = "done"
    /\ UNCHANGED input
    /\ UNCHANGED pageVars

\* doTimeRangesOverlap gets the four clock texts, as
\* processStudentsWithMissedLectures (part_004:32-36) hands them over.
CallDoTimeRangesOverlap ==
    /\ pc = "ready"
    /\ input.day = <<>>
    /\ input.dash = <<EnDash>>
    /\ output' = [fn |-> "doTimeRangesOverlap",
                  value |-> doTimeRangesOverlap(
                                MinutesText(input.ls, input.hw),
                                MinutesText(input.le, input.hw),
                                MinutesText(input.es, input.hw),
                                MinutesText(input.ee, input.hw))]
    /\ pc' = "done"
    /\ UNCHANGED input
    /\ UNCHANGED pageVars

NextOverlap ==
    \/ CallHasTimeOverlap
    \/ CallIsTimeOverlapping
    \/ CallDoTimeRangesOverlap

SpecOverlap == InitOverlap /\ [][NextOverlap]_vars

HalfOpenOverlap(x) == x.ls < x.ee /\ x.es < x.le

\* C1: for every schedule-entry interval [ls,le) and every event slot
\* [es,ee), in minutes since midnight, hasTimeOverlap and isTimeOverlapping
\* report an overlap if and only if ls < ee and es < le; an entry that ends
\* exactly when the slot starts, or starts exactly when it ends, is not
\* reported.
C1_OverlapIffStrictlyIntersecting ==
    /\ (/\ pc = "done" /\ output.fn = "hasTimeOverlap"
        /\ toLowerCase(input.day) \in {<<>>, toLowerCase(input.eventDay)})
            => output.value = HalfOpenOverlap(input)
    /\ (pc = "done" /\ output.fn = "isTimeOverlapping" /\ input.dash = <<EnDash>>)
            => output.value = [threw |-> FALSE, value |-> HalfOpenOverlap(input)]

\* Witness of C1: isTimeOverlapping answered on an entry that ends exactly
\* when the event slot starts, and reported no overlap.
C1_WitnessTouching ==
    /\ pc = "done"
    /\ output.fn = "isTimeOverlapping"
    /\ input.dash = <<EnDash>>
    /\ input.ls < input.le /\ input.le = input.es /\ input.es < input.ee
    /\ output.value = [threw |-> FALSE, value |-> FALSE]

\* C30: for clock times written H:MM or HH:MM with start before end in
\* both ranges, doTimeRangesOverlap(s1, e1, s2, e2) is true if and only if
\* minutes(s1) < minutes(e2) and minutes(s2) < minutes(e1).
C30_StringTestAgreesWithMinutes ==
    (/\ pc = "done" /\ output.fn = "doTimeRangesOverlap"
     /\ input.ls < input.le /\ input.es < input.ee)
        => output.value = HalfOpenOverlap(input)

\* C30 for times whose hours are all written with two digits, where the
\* order of the texts is the order of the minutes.
C30_HoldsForTwoDigitHours ==
    (/\ pc = "done" /\ output.fn = "doTimeRangesOverlap"
     /\ input.ls < input.le /\ input.es < input.ee
     /\ input.hw = 2)
        => output.value = HalfOpenOverlap(input)


---------------------------------------------------------------------------
(* Inputs of calculateMissedLectures: a roster, an event and the content   *)
(* of one timetable section, each given by a description from which the    *)
(* texts and both timetable shapes are rendered.                           *)

BTechCSE == <<"B", ".", "T", "e", "c", "h", " ", "C", "S", "E">>
BCA == <<"B", "C", "A">>
MBA == <<"M", "B", "A">>
BTechIT == <<"B", ".", "T", "e", "c", "h", " ", "I", "T">>
BScCS == <<"B", ".", "S", "c", " ", "C", "S">>
GroupPrefix == <<"G", "r", "o", "u", "p", " ">>

Student(name, program, semester, section, group) ==
    [name |-> name, program |-> program, section |-> section,
     semester |-> semester, group |-> group, normalizedProgram |-> program]

StudentPool ==
    <<Student("Asha", BTechCSE, <<"1">>, <<"A">>, <<>>),
      Student("Bala", BTechCSE, <<"1">>, <<"A">>, <<"1">>),
      Student("Chitra", BTechCSE, <<"1">>, <<"A">>, <<"2">>),
      Student("Dev", MBA, <<"1">>, <<"A">>, <<>>),
      Student("Esha", BTechCSE, <<"1">>, <<"Z">>, <<"1">>),
      Student("Farid", BTechCSE, <<"3">>, <<"A">>, <<>>)>>

\* The roster that lists, in pool order, the students whose index is in S.
RosterOf(S) ==
    LET F[i \in 0..Len(StudentPool)] ==
            IF i = 0 THEN <<>>
            ELSE IF i \in S THEN Append(F[i - 1], StudentPool[i])
            ELSE F[i - 1]
    IN  F[Len(StudentPool)]

Rosters ==
    {RosterOf(S) : S \in {T \in SUBSET (1..Len(StudentPool)) :
                            Cardinality(T) <= MaxStudents}}

\* A schedule entry: code, weekday, [ls, le) in minutes, lab group.
Entry(code, day, ls, le, group) ==
    [code |-> code, day |-> day, ls |-> ls, le |-> le, group |-> group]

CoursePool ==
    <<Entry("Maths", Monday, 555, 610, <<>>),       \* Monday 09:15-10:10
      Entry("Physics", Monday, 855, 910, <<>>),     \* Monday 14:15-15:10
      Entry("Chemistry", Tuesday, 555, 610, <<>>)>> \* Tuesday 09:15-10:10

LabPool ==
    <<Entry("NetLab", Monday, 555, 670, GroupPrefix \o <<"1">>),
      Entry("WebLab", Monday, 555, 670, GroupPrefix \o <<"2">>)>>

\* The event ranges 09:15-10:10 and 14:15-15:10.
EventRanges(dash) ==
    {[s |-> Endpoint(Clock(9, 2, 15, 0, <<>>)),
      e |-> Endpoint(Clock(10, 2, 10, 0, <<>>)), dash |-> dash],
     [s |-> Endpoint(Clock(14, 2, 15, 0, <<>>)),
      e |-> Endpoint(Clock(15, 2, 10, 0, <<>>)), dash |-> dash]}

\* The event 09:15-10:10, 10:00-11:00, whose two slots meet one class.
OverlappingRanges(dash) ==
    <<[s |-> Endpoint(Clock(9, 2, 15, 0, <<>>)),
       e |-> Endpoint(Clock(10, 2, 10, 0, <<>>)), dash |-> dash],
      [s |-> Endpoint(Clock(10, 2, 0, 0, <<>>)),
       e |-> Endpoint(Clock(11, 2, 0, 0, <<>>)), dash |-> dash]>>

PipelineInputs ==
    UNION {
      [students : Rosters,
       ranges : UNION {[1..k -> EventRanges(dash)] : k \in 0..MaxSlots}
                    \cup {OverlappingRanges(dash)},
       sep : {<<"_">>},
       eventDay : {Monday},
       courses : 0..Len(CoursePool),
       labs : 0..Len(LabPool),
       entryDash : {<<"-">>, <<EnDash>>},
       dash : {dash}] : dash \in {<<"-">>, <<EnDash>>}}

SectionCourses(x) == SubSeq(CoursePool, 1, x.courses)
SectionLabs(x) == SubSeq(LabPool, 1, x.labs)

EntryTimeText(e, dash) == MinutesText(e.ls, 2) \o dash \o MinutesText(e.le, 2)

\* The Programs shape (types/od.ts:32-63).
ProgramsEntry(e, dash) ==
    [subject_code |-> e.code, subject_name |-> e.code, faculty |-> "Faculty",
     faculty_code |-> "", day |-> e.day, time |-> EntryTimeText(e, dash),
     group |-> e.group]

ProgramsTimetable(x) ==
    [Programs |->
        <<[key |-> BTechCSE, Semester |-> <<"1">>,
           Sections |->
              <<[name |-> <<"A">>,
                 Courses |-> [i \in 1..x.courses |->
                                 ProgramsEntry(CoursePool[i], x.entryDash)],
                 Labs |-> [i \in 1..x.labs |->
                              ProgramsEntry(LabPool[i], x.entryDash)]]>>],
          [key |-> BCA, Semester |-> <<"1">>,
           Sections |-> <<[name |-> <<"A">>, Courses |-> <<>>, Labs |-> <<>>]>>]>>]

\* The nested shape (README "Add timetable data", types/od.ts:146-166).
NestedEntry(e, dash) ==
    [subject_name |-> e.code, faculty |-> "Faculty",
     time |-> e.day \o <<" ">> \o EntryTimeText(e, dash), room |-> "A-101",
     group |-> e.group]

NestedSection(courses, labs) == [courses |-> courses, labs |-> labs]

NestedTimetable(x) ==
    (BTechCSE :> (<<"1">> :> (<<"A">> :>
        NestedSection([i \in 1..x.courses |-> NestedEntry(CoursePool[i], x.entryDash)],
                      [i \in 1..x.labs |-> NestedEntry(LabPool[i], x.entryDash)]))))
    @@ (BCA :> (<<"1">> :> (<<"A">> :> NestedSection(<<>>, <<>>))))

Init ==
    /\ pc = "ready"
    /\ input \in PipelineInputs
    /\ output = NoOutput
    /\ PageIdle

CallCalculateMissedLectures_Programs ==
    /\ pc = "ready"
    /\ output' = [fn |-> "calculateMissedLectures_Programs",
                  value |-> calculateMissedLectures_Programs(
                                input.students, EventTimeText(input),
                                input.eventDay, ProgramsTimetable(input))]
    /\ pc' = "done"
    /\ UNCHANGED input
    /\ UNCHANGED pageVars

CallCalculateMissedLectures_Nested ==
    /\ pc = "ready"
    /\ output' = [fn |-> "calculateMissedLectures_Nested",
                  value |-> calculateMissedLectures_Nested(
                                input.students, EventTimeText(input),
                                input.eventDay, NestedTimetable(input))]
    /\ pc' = "done"
    /\ UNCHANGED input
    /\ UNCHANGED pageVars

Next ==
    \/ CallCalculateMissedLectures_Programs
    \/ CallCalculateMissedLectures_Nested

Spec == Init /\ [][Next]_vars

---------------------------------------------------------------------------
(* What the description of an input says, in minutes and names, for the    *)
(* properties of calculateMissedLectures.                                  *)

\* The (program, semester, section) triples ProgramsTimetable and
\* NestedTimetable hold.
TimetableSections ==
    {<<BTechCSE, <<"1">>, <<"A">>>>, <<BCA, <<"1">>, <<"A">>>>}

HasTimetableEntry(student) ==
    <<student.program, student.semester, student.section>> \in TimetableSections

\* The entries of the section of the student, empty for the BCA section.
EntriesOf(student, pool, n) ==
    IF student.program = BTechCSE THEN SubSeq(pool, 1, n) ELSE <<>>

RangeOverlaps(e, r) == e.ls < r.e.minutes /\ r.s.minutes < e.le

RangeContains(r, e) == r.s.minutes <= e.ls /\ e.le <= r.e.minutes

EventOverlaps(e, x) ==
    /\ e.day = x.eventDay
    /\ \E k \in 1..Len(x.ranges) : RangeOverlaps(e, x.ranges[k])

Returned == pc = "done" /\ ~output.value.threw

Records == output.value.value

\* How many entries of missedLectures name the schedule entry `code`.
CountOf(missedLectures, code) ==
    Cardinality({j \in 1..Len(missedLectures) :
                    missedLectures[j].subject_name = code})

Range(seq) == {seq[i] : i \in 1..Len(seq)}

\* C2: for every roster of N students, event time, event day and timetable,
\* calculateMissedLectures returns N records without throwing, and every
\* student whose program, semester or section has no timetable entry gets
\* an empty missedLectures list.
C2_OneRecordPerStudentAndNoThrow ==
    pc = "done" =>
        /\ ~output.value.threw
        /\ Len(Records) = Len(input.students)
        /\ \A i \in 1..Len(input.students) :
              ~HasTimetableEntry(input.students[i])
                  => Records[i].missedLectures = <<>>

\* The nested variant (page.tsx:389-439) meets the statement of C2.
C2_HoldsForNested ==
    (pc = "done" /\ output.fn = "calculateMissedLectures_Nested") =>
        /\ ~output.value.threw
        /\ Len(Records) = Len(input.students)
        /\ \A i \in 1..Len(input.students) :
              ~HasTimetableEntry(input.students[i])
                  => Records[i].missedLectures = <<>>

\* The Programs variant throws only on texts without an en dash.
C2_ProgramsReturnsOnEnDash ==
    (pc = "done" /\ input.dash = <<EnDash>> /\ input.entryDash = <<EnDash>>)
        => ~output.value.threw

LabsOnlyOfOwnGroup(i) ==
    LET student == input.students[i]
        own == GroupPrefix \o student.group
        missed == Records[i].missedLectures
    IN  student.group # <<>> =>
            \A lab \in Range(SectionLabs(input)) :
                /\ lab.group # own => CountOf(missed, lab.code) = 0
                /\ (/\ lab.group = own
                    /\ HasTimetableEntry(student)
                    /\ EventOverlaps(lab, input))
                        => CountOf(missed, lab.code) >= 1

\* C3: when the student carries a group g, an overlapping lab of the
\* resolved section is in missedLectures only if lab.group = "Group g";
\* labs of another group are never attributed to the student, the lab of
\* the student's own group is.
C3_LabsOnlyOfOwnGroup ==
    Returned => \A i \in 1..Len(input.students) : LabsOnlyOfOwnGroup(i)

\* The Programs variant (page.tsx:855-865) meets the statement of C3
\* whenever it returns.
C3_HoldsForPrograms ==
    (Returned /\ output.fn = "calculateMissedLectures_Programs")
        => \A i \in 1..Len(input.students) : LabsOnlyOfOwnGroup(i)

EveryOverlappingLab(i) ==
    LET student == input.students[i]
    IN  (student.group = <<>> /\ HasTimetableEntry(student)) =>
            \A lab \in Range(EntriesOf(student, LabPool, input.labs)) :
                EventOverlaps(lab, input) =>
                    /\ ~output.value.threw
                    /\ CountOf(Records[i].missedLectures, lab.code) >= 1

\* C4: when the student carries no group, every lab of the resolved section
\* that overlaps the event on the event day is in missedLectures, whatever
\* the group label of the lab.
C4_NoGroupGetsEveryOverlappingLab ==
    (pc = "done" /\ output.fn = "calculateMissedLectures_Programs")
        => \A i \in 1..Len(input.students) : EveryOverlappingLab(i)

\* The statement of C4 holds in every state where the call returned.
C4_HoldsWhenReturned ==
    Returned => \A i \in 1..Len(input.students) : EveryOverlappingLab(i)

CourseCodes == {CoursePool[i].code : i \in 1..Len(CoursePool)}

CourseEntries(missedLectures) ==
    SelectSeq(missedLectures, LAMBDA m : m.subject_name \in CourseCodes)

GroupValues == {<<>>, <<"1">>, <<"2">>}

\* The call of this state made again for a roster of one student.
CallFor(student) ==
    IF output.fn = "calculateMissedLectures_Programs"
    THEN calculateMissedLectures_Programs(
             <<student>>, EventTimeText(input), input.eventDay,
             ProgramsTimetable(input))
    ELSE calculateMissedLectures_Nested(
             <<student>>, EventTimeText(input), input.eventDay,
             NestedTimetable(input))

\* C5: courses are never group-filtered: a student and the same student
\* with any other group value (or none) get the same course entries in
\* missedLectures.
C5_CoursesNeverGroupFiltered ==
    Returned =>
        \A i \in 1..Len(input.students) : \A g \in GroupValues :
            LET other == CallFor([input.students[i] EXCEPT !.group = g])
            IN  /\ ~other.threw
                /\ CourseEntries(other.value[1].missedLectures)
                       = CourseEntries(Records[i].missedLectures)

\* Witness of C5: two students of one section who differ in their group
\* were given the same, non-empty, course entries and different labs.
C5_WitnessSameCoursesDifferentLabs ==
    /\ Returned
    /\ output.fn = "calculateMissedLectures_Programs"
    /\ \E i, j \in 1..Len(input.students) :
          /\ input.students[i].group = <<>>
          /\ input.students[j].group = <<"1">>
          /\ input.students[i].section = input.students[j].section
          /\ input.students[i].semester = input.students[j].semester
          /\ CourseEntries(Records[i].missedLectures) # <<>>
          /\ CourseEntries(Records[i].missedLectures)
                 = CourseEntries(Records[j].missedLectures)
          /\ Records[i].missedLectures # Records[j].missedLectures

DisjointRanges(ranges) ==
    \A a, b \in 1..Len(ranges) :
        a < b => ~(/\ ranges[a].s.minutes < ranges[b].e.minutes
                   /\ ranges[b].s.minutes < ranges[a].e.minutes)

DayCoursesIn(student, x, r) ==
    {c \in Range(EntriesOf(student, CoursePool, x.courses)) :
        c.day = x.eventDay /\ RangeContains(r, c)}

\* The section of the student has one course inside each range of the
\* event and no lab during the event.
OneCourseInEachRange(student, x) ==
    /\ HasTimetableEntry(student)
    /\ \A k \in 1..Len(x.ranges) :
          Cardinality(DayCoursesIn(student, x, x.ranges[k])) = 1
    /\ \A lab \in Range(EntriesOf(student, LabPool, x.labs)) :
          ~EventOverlaps(lab, x)

OneMissedLecturePerSlot(i) ==
    LET student == input.students[i]
    IN  OneCourseInEachRange(student, input) =>
            /\ ~output.value.threw
            /\ Len(Records[i].missedLectures) = Len(input.ranges)
            /\ \A k \in 1..Len(input.ranges) :
                  \A c \in DayCoursesIn(student, input, input.ranges[k]) :
                      CountOf(Records[i].missedLectures, c.code) = 1

\* C10: for an event time of k disjoint ranges with hyphen-separated
\* endpoints joined by '_' and a resolved section with exactly one course
\* inside each range on the event day, calculateMissedLectures gives the
\* student exactly k missed lectures, one per slot, each course once.
C10_OneMissedLecturePerSlot ==
    (pc = "done" /\ input.dash = <<"-">> /\ DisjointRanges(input.ranges))
        => \A i \in 1..Len(input.students) : OneMissedLecturePerSlot(i)

\* The nested variant (page.tsx:446-597) meets the statement of C10.
C10_HoldsForNested ==
    (/\ pc = "done" /\ output.fn = "calculateMissedLectures_Nested"
     /\ input.dash = <<"-">> /\ DisjointRanges(input.ranges))
        => \A i \in 1..Len(input.students) : OneMissedLecturePerSlot(i)

\* The Programs variant meets it when every range is written with an en dash.
C10_ProgramsHoldsOnEnDash ==
    (/\ pc = "done" /\ output.fn = "calculateMissedLectures_Programs"
     /\ input.dash = <<EnDash>> /\ input.entryDash = <<EnDash>>
     /\ DisjointRanges(input.ranges))
        => \A i \in 1..Len(input.students) : OneMissedLecturePerSlot(i)

---------------------------------------------------------------------------
(* One student, one event range 09:15-10:10 and a section whose first      *)
(* course, Maths, is written in one of several forms on one of several     *)
(* days, optionally followed by a well-formed lab, NetLab, at 09:15-11:10  *)
(* on the same day.  The three resolution functions are called on it.      *)

Funday == <<"F", "u", "n", "d", "a", "y">>

\* How the time of Maths is written:
\*   "range"   H:MM<dash>H:MM
\*   "empty"   the empty string
\*   "single"  H:MM, no separator and no end
\*   "hour"    the hours of both ends 24 too large
\*   "minute"  the end written with minute 60 + M of the hour before
EntryForms == {"range", "empty", "single", "hour", "minute"}

ScheduleInputs ==
    [day : {Monday, mondayLower, Tuesday},
     eventDay : {Monday, mondayLower, Tuesday, Funday, <<>>},
     form : EntryForms,
     overlapping : BOOLEAN,
     entryDash : {<<"-">>, <<EnDash>>},
     eventDash : {<<"-">>, <<EnDash>>},
     follower : BOOLEAN]

\* Maths is at 09:15-10:10 when it overlaps the event, else at 14:15-15:10.
MathsStart(x) == IF x.overlapping THEN 555 ELSE 855
MathsEnd(x) == MathsStart(x) + 55

MathsTimeText(x) ==
    CASE x.form = "range" ->
            MinutesText(MathsStart(x), 2) \o x.entryDash
                \o MinutesText(MathsEnd(x), 2)
      [] x.form = "empty" -> <<>>
      [] x.form = "single" -> MinutesText(MathsStart(x), 2)
      [] x.form = "hour" ->
            NumberText(MathsStart(x) \div 60 + 24, 2) \o <<":">>
                \o TwoDigits(MathsStart(x) % 60) \o x.entryDash
                \o NumberText(MathsEnd(x) \div 60 + 24, 2) \o <<":">>
                \o TwoDigits(MathsEnd(x) % 60)
      [] x.form = "minute" ->
            MinutesText(MathsStart(x), 2) \o x.entryDash
                \o NumberText(MathsEnd(x) \div 60 - 1, 2) \o <<":">>
                \o TwoDigits((MathsEnd(x) % 60) + 60)

NetLabTimeText == MinutesText(555, 2) \o <<EnDash>> \o MinutesText(670, 2)

ScheduleEventTime(x) ==
    MinutesText(555, 2) \o x.eventDash \o MinutesText(610, 2)

ScheduledEntry(code, day, time, group) ==
    [subject_code |-> code, subject_name |-> code, faculty |-> "Faculty",
     faculty_code |-> "", day |-> day, time |-> time, group |-> group]

ScheduleTimetable_Programs(x) ==
    [Programs |->
        <<[key |-> BTechCSE, Semester |-> <<"1">>,
           Sections |->
              <<[name |-> <<"A">>,
                 Courses |-> <<ScheduledEntry("Maths", x.day,
                                              MathsTimeText(x), <<>>)>>,
                 Labs |-> IF x.follower
                          THEN <<ScheduledEntry("NetLab", x.day, NetLabTimeText,
                                                GroupPrefix \o <<"1">>)>>
                          ELSE <<>>]>>]>>]

\* The nested shape writes the day in front of a time that is not empty.
DayAndTime(day, time) == IF time = <<>> THEN <<>> ELSE day \o <<" ">> \o time

ScheduleTimetable_Nested(x) ==
    BTechCSE :> (<<"1">> :> (<<"A">> :>
        NestedSection(
            <<[subject_name |-> "Maths", faculty |-> "Faculty",
               time |-> DayAndTime(x.day, MathsTimeText(x)),
               room |-> "A-101", group |-> <<>>]>>,
            IF x.follower
            THEN <<[subject_name |-> "NetLab", faculty |-> "Faculty",
                    time |-> DayAndTime(x.day, NetLabTimeText),
                    room |-> "A-101", group |-> GroupPrefix \o <<"1">>]>>
            ELSE <<>>)))

ScheduleRoster == <<StudentPool[1]>>

InitSchedule ==
    /\ pc = "ready"
    /\ input \in ScheduleInputs
    /\ output = NoOutput
    /\ PageIdle

ResolveNested ==
    /\ pc = "ready"
    /\ output' = [fn |-> "calculateMissedLectures_Nested",
                  value |-> calculateMissedLectures_Nested(
                                ScheduleRoster, ScheduleEventTime(input),
                                input.eventDay,
                                ScheduleTimetable_Nested(input))]
    /\ pc' = "done"
    /\ UNCHANGED input
    /\ UNCHANGED pageVars

ResolvePrograms ==
    /\ pc = "ready"
    /\ output' = [fn |-> "calculateMissedLectures_Programs",
                  value |-> calculateMissedLectures_Programs(
                                ScheduleRoster, ScheduleEventTime(input),
                                input.eventDay,
                                ScheduleTimetable_Programs(input))]
    /\ pc' = "done"
    /\ UNCHANGED input
    /\ UNCHANGED pageVars

ResolveProcessStudents ==
    /\ pc = "ready"
    /\ output' = [fn |-> "processStudentsWithMissedLectures",
                  value |-> processStudentsWithMissedLectures(
                                ScheduleRoster,
                                ScheduleTimetable_Programs(input), <<>>,
                                input.eventDay, ScheduleEventTime(input))]
    /\ pc' = "done"
    /\ UNCHANGED input
    /\ UNCHANGED pageVars

NextSchedule ==
    \/ ResolveNested
    \/ ResolvePrograms
    \/ ResolveProcessStudents

SpecSchedule == InitSchedule /\ [][NextSchedule]_vars

\* The schedule entry `code` is among the missed lectures of the student.
Reported(code) == Returned /\ CountOf(Records[1].missedLectures, code) > 0

SameDayIgnoringCase(x) == toLowerCase(x.day) = toLowerCase(x.eventDay)

\* Every text of the input is one all three functions read as a range.
PlainlyWritten(x) ==
    /\ x.form = "range"
    /\ x.entryDash = <<EnDash>>
    /\ x.eventDash = <<EnDash>>

\* C11: day matching between a schedule entry and the event ignores letter
\* case: an entry whose day differs from the event day, ignoring case, is
\* never reported as missed whatever its time, and an overlapping entry
\* whose day equals the event day ignoring case ("monday" against "Monday")
\* is not excluded by the day gate, so it is reported.
C11_DayMatchIgnoresCase ==
    pc = "done" =>
        /\ ~SameDayIgnoringCase(input) => ~Reported("Maths")
        /\ (/\ SameDayIgnoringCase(input)
            /\ PlainlyWritten(input)
            /\ input.overlapping) => Reported("Maths")

\* C11 restricted to the nested variant, whose hasTimeOverlap lower-cases
\* both days before comparing them.
C11_HoldsForNested ==
    (pc = "done" /\ output.fn = "calculateMissedLectures_Nested") =>
        /\ ~SameDayIgnoringCase(input) => ~Reported("Maths")
        /\ (/\ SameDayIgnoringCase(input)
            /\ PlainlyWritten(input)
            /\ input.overlapping) => Reported("Maths")

NotAWeekday(day) == toLowerCase(day) \notin WeekdayNames

\* C12: when the event day is not one of the seven weekday names, compared
\* ignoring case, resolution returns without an error and gives every
\* student zero missed lectures, for a timetable whose entries are
\* scheduled on weekday names.
C12_NoMatchOutsideTheWeek ==
    (pc = "done" /\ NotAWeekday(input.eventDay)) =>
        /\ Returned
        /\ \A i \in 1..Len(Records) : Records[i].missedLectures = <<>>

\* Witness of C12: the nested variant resolved an event on "Funday" against
\* a section with two entries at the event's time and returned no missed
\* lecture.
C12_WitnessFunday ==
    /\ pc = "done"
    /\ output.fn = "calculateMissedLectures_Nested"
    /\ input.eventDay = Funday
    /\ PlainlyWritten(input) /\ input.overlapping /\ input.follower
    /\ Returned
    /\ Records[1].missedLectures = <<>>

\* The forms a variant cannot read as one start-end range: the nested
\* variant reads both dashes, the programs variant the en dash only.
UnparseableFor(fn, x) ==
    \/ x.form # "range"
    \/ fn = "calculateMissedLectures_Programs" /\ x.entryDash = <<"-">>

\* C13: a schedule entry whose time cannot be parsed as one start-end range
\* (empty, no separator, the wrong dash, hours or minutes out of range) is
\* treated as not overlapping: nothing is thrown, the entry is not
\* reported, and the entries after it are still checked.
C13_UnparseableEntryNeverOverlaps ==
    (/\ pc = "done"
     /\ output.fn \in {"calculateMissedLectures_Nested",
                       "calculateMissedLectures_Programs"}
     /\ input.eventDash = <<EnDash>>
     /\ UnparseableFor(output.fn, input)) =>
        /\ Returned
        /\ ~Reported("Maths")
        /\ (input.follower /\ input.day = input.eventDay) => Reported("NetLab")

\* C13 restricted to the nested variant, where parseLectureTime answers
\* null for every such entry.
C13_HoldsForNested ==
    (/\ pc = "done"
     /\ output.fn = "calculateMissedLectures_Nested"
     /\ UnparseableFor(output.fn, input)) =>
        /\ Returned
        /\ ~Reported("Maths")
        /\ (input.follower /\ input.day = input.eventDay) => Reported("NetLab")

---------------------------------------------------------------------------
(* Inputs of findProgramKey: the keys of timetable.Programs in the order   *)
(* Object.keys yields them, and the normalized programs of two students,   *)
(* resolved one after the other.                                           *)

BTechCSELower == toLowerCase(BTechCSE)
BTechCSEAI == BTechCSE \o <<" ", "(", "A", "I", ")">>

KeyPool == {BTechCSE, BTechCSELower, BTechCSEAI, BCA, BTechIT}

\* The programs looked up; the last is the empty program of a blank cell.
ProgramNames == KeyPool \cup {<<"C", "S", "E">>, MBA, <<>>}

\* The key lists: up to MaxKeys different keys in any order.
KeyLists ==
    {keys \in UNION {[1..n -> KeyPool] : n \in 0..MaxKeys} :
        \A i, j \in 1..Len(keys) : i # j => keys[i] # keys[j]}

KeyInputs == [keys : KeyLists, programs : ProgramNames \X ProgramNames]

KeyTimetable(x) ==
    [Programs |-> [i \in 1..Len(x.keys) |-> [key |-> x.keys[i]]]]

InitKeys ==
    /\ pc = "ready"
    /\ input \in KeyInputs
    /\ output = [fn |-> "findProgramKey", value |-> <<>>]
    /\ PageIdle

\* The next student's program is resolved; the result is the key, or Null.
CallFindProgramKey ==
    /\ pc = "ready"
    /\ LET at == findProgramKey(input.programs[Len(output.value) + 1],
                                 KeyTimetable(input))
           found == IF at = 0 THEN Null ELSE Some(input.keys[at])
       IN  output' = [output EXCEPT !.value = Append(@, found)]
    /\ pc' = IF Len(output.value) = 1 THEN "done" ELSE "ready"
    /\ UNCHANGED input
    /\ UNCHANGED pageVars

NextKeys == CallFindProgramKey

SpecKeys == InitKeys /\ [][NextKeys]_vars

SameIgnoringCase(x, y) == toLowerCase(x) = toLowerCase(y)

HasKeyFor(x, program) ==
    \E i \in 1..Len(x.keys) : SameIgnoringCase(x.keys[i], program)

\* Whenever some key equals the program ignoring case, the key returned is
\* such a key.
ExactMatchWins(k) ==
    HasKeyFor(input, input.programs[k]) =>
        /\ output.value[k] # Null
        /\ SameIgnoringCase(output.value[k][1], input.programs[k])

C19_KeysDifferingBeyondCaseNeverMerge ==
    pc = "done" =>
        /\ \A k \in 1..2 : ExactMatchWins(k)
        /\ (/\ ~SameIgnoringCase(input.programs[1], input.programs[2])
            /\ \A k \in 1..2 : input.programs[k] \in Range(input.keys))
                => output.value[1] # output.value[2]

\* A case of C19 the code satisfies: "B.Tech CSE (AI)" precedes "B.Tech CSE" among the keys,
\* the two students have these two programs, and each got its own key.
C19_WitnessOwnKeys ==
    /\ pc = "done"
    /\ input.keys = <<BTechCSEAI, BTechCSE>>
    /\ input.programs = <<BTechCSE, BTechCSEAI>>
    /\ output.value = <<Some(BTechCSE), Some(BTechCSEAI)>>

\* C25: the empty program string resolves to no program key, whatever keys
\* the timetable has.
C25_EmptyProgramResolvesToNoKey ==
    \A k \in 1..Len(output.value) :
        input.programs[k] = <<>> => output.value[k] = Null

\* C25 on a timetable without programs, the one timetable on which the
\* empty program resolves to no key.
C25_HoldsWithoutKeys ==
    \A k \in 1..Len(output.value) :
        (input.programs[k] = <<>> /\ input.keys = <<>>) => output.value[k] = Null

---------------------------------------------------------------------------
(* loadTimetable, page.tsx:684-709 (nested variant) and 717-729 (programs  *)
(* variant).  The read of /data/timetable.json ends in one of four ways:   *)
(* fetch rejects, the response is not OK, the body is not JSON, or the     *)
(* document arrives.                                                       *)

FetchOutcomes == {"rejected", "notOk", "badJson", "ok"}

\* The message of the error the read ended with.
NetworkMessages == {"Failed to fetch", "Load failed"}
StatusTexts == {"Not Found", "Internal Server Error"}
JsonMessage == "Unexpected token < in JSON"

Prefix == "Failed to load timetable: "

Rejected(message) == [threw |-> TRUE, message |-> message]
Fulfilled(value) == [threw |-> FALSE, value |-> value]

loadTimetable_Nested(read) ==
    CASE read.outcome = "rejected" -> Rejected(Prefix \o read.network)
      [] read.outcome = "notOk" ->
            Rejected(Prefix \o (Prefix \o read.statusText))
      [] read.outcome = "badJson" -> Rejected(Prefix \o JsonMessage)
      [] read.outcome = "ok" -> Fulfilled(read.document)

\* catch (error) { console.error(...); return { Programs: {} }; }
loadTimetable_Programs(read) ==
    IF read.outcome = "ok" THEN Fulfilled(read.document)
    ELSE Fulfilled([Programs |-> <<>>])

\* The documents served: the timetable of a pipeline input in both shapes.
Documents ==
    [courses : 0..Len(CoursePool), labs : 0..Len(LabPool),
     entryDash : {<<"-">>, <<EnDash>>}]

LoadInputs ==
    [outcome : FetchOutcomes, network : NetworkMessages,
     statusText : StatusTexts, content : Documents]

ReadOf(x, shape) ==
    [outcome |-> x.outcome, network |-> x.network,
     statusText |-> x.statusText,
     document |-> IF shape = "nested" THEN NestedTimetable(x.content)
                  ELSE ProgramsTimetable(x.content)]

InitLoad ==
    /\ pc = "ready"
    /\ input \in LoadInputs
    /\ output = NoOutput
    /\ PageIdle

\* loadTimetable is called and awaits fetch.
CallLoadTimetable_Nested ==
    /\ pc = "ready"
    /\ output' = [fn |-> "loadTimetable_Nested", value |-> <<>>]
    /\ pc' = "fetching"
    /\ UNCHANGED input
    /\ UNCHANGED pageVars

CallLoadTimetable_Programs ==
    /\ pc = "ready"
    /\ output' = [fn |-> "loadTimetable_Programs", value |-> <<>>]
    /\ pc' = "fetching"
    /\ UNCHANGED input
    /\ UNCHANGED pageVars

\* The read ends and the promise of loadTimetable settles.
FetchSettles ==
    /\ pc = "fetching"
    /\ output' = [output EXCEPT !.value =
                      IF output.fn = "loadTimetable_Nested"
                      THEN loadTimetable_Nested(ReadOf(input, "nested"))
                      ELSE loadTimetable_Programs(ReadOf(input, "programs"))]
    /\ pc' = "done"
    /\ UNCHANGED input
    /\ UNCHANGED pageVars

NextLoad ==
    \/ CallLoadTimetable_Nested
    \/ CallLoadTimetable_Programs
    \/ FetchSettles

SpecLoad == InitLoad /\ [][NextLoad]_vars

\* C20: when the timetable document cannot be read (fetch fails or the
\* response is not OK), loadTimetable surfaces an error to its caller: its
\* promise is rejected, so no resolution run goes on with a substitute
\* timetable.
C20_FailedReadIsSurfaced ==
    (pc = "done" /\ input.outcome # "ok") => output.value.threw

\* C20 restricted to the nested variant, which rethrows.
C20_HoldsForNested ==
    (/\ pc = "done" /\ output.fn = "loadTimetable_Nested"
     /\ input.outcome # "ok") => output.value.threw

---------------------------------------------------------------------------
(* normalizeProgram, src/utils/normalizeData.ts:10-77.                     *)

\* The entries of programMappings, in the order Object.entries yields them.
programMappings ==
    <<
      <<<<"b", "t", "e", "c", "h", " ", "c", "s", "e">>,
        BTechCSE>>,
      <<<<"b", ".", "t", "e", "c", "h", " ", "c", "s", "e">>,
        BTechCSE>>,
      <<<<"b", "t", "e", "c", "h", " ", "c", "o", "m", "p", "u", "t", "e", "r", " ", "s", "c", "i", "e", "n", "c", "e">>,
        BTechCSE>>,
      <<<<"b", ".", "t", "e", "c", "h", " ", "c", "o", "m", "p", "u", "t", "e", "r", " ", "s", "c", "i", "e", "n", "c", "e">>,
        BTechCSE>>,
      <<<<"b", "a", "c", "h", "e", "l", "o", "r", " ", "o", "f", " ", "t", "e", "c", "h", "n", "o", "l", "o", "g", "y", " ", "c", "s", "e">>,
        BTechCSE>>,
      <<<<"b", "a", "c", "h", "e", "l", "o", "r", " ", "o", "f", " ", "t", "e", "c", "h", "n", "o", "l", "o", "g", "y", " ", "c", "o", "m", "p", "u", "t", "e", "r", " ", "s", "c", "i", "e", "n", "c", "e">>,
        BTechCSE>>,
      <<<<"c", "s", "e">>,
        BTechCSE>>,
      <<<<"c", "o", "m", "p", "u", "t", "e", "r", " ", "s", "c", "i", "e", "n", "c", "e", " ", "e", "n", "g", "i", "n", "e", "e", "r", "i", "n", "g">>,
        BTechCSE>>,
      <<<<"b", "t", "e", "c", "h", " ", "i", "t">>,
        BTechIT>>,
      <<<<"b", ".", "t", "e", "c", "h", " ", "i", "t">>,
        BTechIT>>,
      <<<<"b", "t", "e", "c", "h", " ", "i", "n", "f", "o", "r", "m", "a", "t", "i", "o", "n", " ", "t", "e", "c", "h", "n", "o", "l", "o", "g", "y">>,
        BTechIT>>,
      <<<<"b", ".", "t", "e", "c", "h", " ", "i", "n", "f", "o", "r", "m", "a", "t", "i", "o", "n", " ", "t", "e", "c", "h", "n", "o", "l", "o", "g", "y">>,
        BTechIT>>,
      <<<<"b", "a", "c", "h", "e", "l", "o", "r", " ", "o", "f", " ", "t", "e", "c", "h", "n", "o", "l", "o", "g", "y", " ", "i", "t">>,
        BTechIT>>,
      <<<<"b", "a", "c", "h", "e", "l", "o", "r", " ", "o", "f", " ", "t", "e", "c", "h", "n", "o", "l", "o", "g", "y", " ", "i", "n", "f", "o", "r", "m", "a", "t", "i", "o", "n", " ", "t", "e", "c", "h", "n", "o", "l", "o", "g", "y">>,
        BTechIT>>,
      <<<<"i", "t">>,
        BTechIT>>,
      <<<<"i", "n", "f", "o", "r", "m", "a", "t", "i", "o", "n", " ", "t", "e", "c", "h", "n", "o", "l", "o", "g", "y">>,
        BTechIT>>,
      <<<<"b", "c", "a">>,
        BCA>>,
      <<<<"b", "a", "c", "h", "e", "l", "o", "r", " ", "o", "f", " ", "c", "o", "m", "p", "u", "t", "e", "r", " ", "a", "p", "p", "l", "i", "c", "a", "t", "i", "o", "n", "s">>,
        BCA>>,
      <<<<"b", "a", "c", "h", "e", "l", "o", "r", " ", "i", "n", " ", "c", "o", "m", "p", "u", "t", "e", "r", " ", "a", "p", "p", "l", "i", "c", "a", "t", "i", "o", "n", "s">>,
        BCA>>,
      <<<<"b", "s", "c", " ", "c", "s">>,
        BScCS>>,
      <<<<"b", ".", "s", "c", " ", "c", "s">>,
        BScCS>>,
      <<<<"b", "s", "c", " ", "c", "o", "m", "p", "u", "t", "e", "r", " ", "s", "c", "i", "e", "n", "c", "e">>,
        BScCS>>,
      <<<<"b", ".", "s", "c", " ", "c", "o", "m", "p", "u", "t", "e", "r", " ", "s", "c", "i", "e", "n", "c", "e">>,
        BScCS>>,
      <<<<"b", "a", "c", "h", "e", "l", "o", "r", " ", "o", "f", " ", "s", "c", "i", "e", "n", "c", "e", " ", "c", "s">>,
        BScCS>>,
      <<<<"b", "a", "c", "h", "e", "l", "o", "r", " ", "o", "f", " ", "s", "c", "i", "e", "n", "c", "e", " ", "c", "o", "m", "p", "u", "t", "e", "r", " ", "s", "c", "i", "e", "n", "c", "e">>,
        BScCS>>,
      <<<<"b", "s", "c">>,
        BScCS>>,
      <<<<"b", ".", "s", "c">>,
        BScCS>>
    >>

\* word.charAt(0).toUpperCase() + word.slice(1).toLowerCase()
capitalize(word) ==
    IF word = <<>> THEN <<>>
    ELSE <<toUpperCaseChar(word[1])>> \o toLowerCase(Tail(word))

\* programMappings is an object literal: a lookup of a name it does not
\* hold goes on to Object.prototype.  The inherited names a lowercased text
\* can spell are "constructor" and "__proto__"; their values are the Object
\* function and the prototype object, both truthy and neither a string.
ObjectFunction == <<"function Object">>
ObjectPrototype == <<"Object.prototype">>

inheritedProperty(name) ==
    IF name = <<"c", "o", "n", "s", "t", "r", "u", "c", "t", "o", "r">> THEN ObjectFunction
    ELSE IF name = <<"_", "_", "p", "r", "o", "t", "o", "_", "_">> THEN ObjectPrototype
    ELSE Undefined

normalizeProgram(program) ==
    IF program = <<>> THEN <<>>
    ELSE IF inheritedProperty(trim(toLowerCase(program))) # Undefined
    THEN inheritedProperty(trim(toLowerCase(program)))
    ELSE
    LET normalized == trim(toLowerCase(program))
        exact == firstIndex([k \in 1..Len(programMappings) |->
                                programMappings[k][1] = normalized])
        partial == firstIndex([k \in 1..Len(programMappings) |->
                                  \/ includes(normalized, programMappings[k][1])
                                  \/ includes(programMappings[k][1], normalized)])
        words == split(program, "space")
    IN  IF exact # 0 THEN programMappings[exact][2]
        ELSE IF partial # 0 THEN programMappings[partial][2]
        ELSE join([i \in 1..Len(words) |-> capitalize(words[i])], <<" ">>)

---------------------------------------------------------------------------
(* normalizeSection, src/utils/normalizeData.ts:84-104.                    *)

startsWith(s, prefix) ==
    Len(s) >= Len(prefix) /\ SubSeq(s, 1, Len(prefix)) = prefix

SEC == <<"S", "E", "C">>
SECTION == <<"S", "E", "C", "T", "I", "O", "N">>
SectionWord == <<"S", "e", "c", "t", "i", "o", "n">>

\* /^[A-Z]$/
singleCapital(s) == Len(s) = 1 /\ s[1] \in DOMAIN LowerOf

normalizeSection(section) ==
    IF section = <<>> THEN <<>>
    ELSE LET normalized == toUpperCase(trim(section))
         IN  IF singleCapital(normalized)
             THEN SectionWord \o <<" ">> \o normalized
             ELSE IF startsWith(normalized, SEC)
             THEN replaceFirst(normalized, SEC, SectionWord)
             ELSE IF ~startsWith(normalized, SECTION)
             THEN SectionWord \o <<" ">> \o normalized
             ELSE normalized

---------------------------------------------------------------------------
(* Inputs of normalizeProgram and normalizeSection: a spelling, the letter *)
(* case it is written in and the blanks around it.                         *)

LetterCases == {"lower", "upper", "title"}

inCase(text, letterCase) ==
    CASE letterCase = "lower" -> toLowerCase(text)
      [] letterCase = "upper" -> toUpperCase(text)
      [] letterCase = "title" ->
            LET words == split(text, "space")
            IN  join([i \in 1..Len(words) |-> capitalize(words[i])], <<" ">>)

MappedSpellings == {programMappings[k][1] : k \in 1..Len(programMappings)}

\* Spellings that are no key of programMappings.
OtherSpellings ==
    {<<"m", "c", "a">>,
     <<"d", "a", "t", "a", " ", "s", "c", "i", "e", "n", "c", "e">>,
     <<"c", "o", "n", "s", "t", "r", "u", "c", "t", "o", "r">>,
     <<"b", ".", "s", "c", " ", "i", "t">>,
     <<"b">>}

SectionLetters == {"A", "B", "C"}

\* What stands in front of the section letter.
SectionPrefixes == {"bare", "sec", "section"}

NormalizeInputs ==
    [of : {"program"},
     base : MappedSpellings \cup OtherSpellings,
     letterCase : LetterCases,
     padLeft : 0..MaxPad,
     padRight : 0..MaxPad]
    \cup
    [of : {"section"},
     letter : SectionLetters,
     prefix : SectionPrefixes,
     letterCase : LetterCases,
     padLeft : 0..MaxPad,
     padRight : 0..MaxPad]

Padded(x, text) == Spaces(x.padLeft) \o text \o Spaces(x.padRight)

ProgramText(x) == Padded(x, inCase(x.base, x.letterCase))

SectionText(x) ==
    Padded(x, inCase((CASE x.prefix = "bare" -> <<>>
                        [] x.prefix = "sec" -> SEC \o <<" ">>
                        [] x.prefix = "section" -> SECTION \o <<" ">>)
                     \o <<x.letter>>, x.letterCase))

InitNormalize ==
    /\ pc = "ready"
    /\ input \in NormalizeInputs
    /\ output = NoOutput
    /\ PageIdle

CallNormalizeProgram ==
    /\ pc = "ready"
    /\ input.of = "program"
    /\ output' = [fn |-> "normalizeProgram",
                  value |-> normalizeProgram(ProgramText(input))]
    /\ pc' = "done"
    /\ UNCHANGED input
    /\ UNCHANGED pageVars

CallNormalizeSection ==
    /\ pc = "ready"
    /\ input.of = "section"
    /\ output' = [fn |-> "normalizeSection",
                  value |-> normalizeSection(SectionText(input))]
    /\ pc' = "done"
    /\ UNCHANGED input
    /\ UNCHANGED pageVars

NextNormalize ==
    \/ CallNormalizeProgram
    \/ CallNormalizeSection

SpecNormalize == InitNormalize /\ [][NextNormalize]_vars

\* The label programMappings gives a spelling that is one of its keys.
LabelOf(base) ==
    programMappings[CHOOSE k \in 1..Len(programMappings) :
                        programMappings[k][1] = base][2]

CanonicalLabels == {programMappings[k][2] : k \in 1..Len(programMappings)}

\* Some key contains the spelling or is contained in it.
NearAKey(base) ==
    \E k \in 1..Len(programMappings) :
        \/ includes(base, programMappings[k][1])
        \/ includes(programMappings[k][1], base)

IsText(v) == v \notin {Undefined, ObjectFunction, ObjectPrototype}

\* C14: normalizeProgram returns a string for every input string; a
\* spelling that is a key of the table gets the key's label in any letter
\* case ("btech cse", "BTECH CSE", "Computer Science Engineering" all give
\* "B.Tech CSE"); a spelling that is no key but contains a key or lies
\* inside one gets a label of the table; any other spelling comes back in
\* title case.
C14_NormalizeProgramContract ==
    (pc = "done" /\ output.fn = "normalizeProgram") =>
        /\ IsText(output.value)
        /\ input.base \in MappedSpellings =>
                output.value = LabelOf(input.base)
        /\ (input.base \notin MappedSpellings /\ NearAKey(input.base)) =>
                output.value \in CanonicalLabels
        /\ ~NearAKey(input.base) =>
                output.value = Padded(input, inCase(input.base, "title"))

\* C14 without the spellings that name a property of Object.prototype.
C14_HoldsOffInheritedNames ==
    (/\ pc = "done" /\ output.fn = "normalizeProgram"
     /\ inheritedProperty(input.base) = Undefined) =>
        /\ IsText(output.value)
        /\ input.base \in MappedSpellings =>
                output.value = LabelOf(input.base)
        /\ (input.base \notin MappedSpellings /\ NearAKey(input.base)) =>
                output.value \in CanonicalLabels
        /\ ~NearAKey(input.base) =>
                output.value = Padded(input, inCase(input.base, "title"))

\* C15: for every section letter X, normalizeSection returns "Section X"
\* whether the raw value is the bare letter, "Sec X" or "Section X", in any
\* letter case and with blanks around it.
C15_OneLabelPerSection ==
    (pc = "done" /\ output.fn = "normalizeSection") =>
        output.value = SectionWord \o <<" ", input.letter>>

\* C15 for the bare letter and the abbreviated prefix.
C15_HoldsForBareAndSec ==
    (/\ pc = "done" /\ output.fn = "normalizeSection"
     /\ input.prefix \in {"bare", "sec"}) =>
        output.value = SectionWord \o <<" ", input.letter>>

---------------------------------------------------------------------------
(* levenshteinDistance, normalizeString and fuzzyMatchStrings,             *)
(* src/utils/stringUtils.ts:7-74, and fuzzyMatch,                          *)
(* src/utils/parseExcel.ts:640-683.                                        *)

Min3(x, y, z) ==
    IF x <= y /\ x <= z THEN x ELSE IF y <= z THEN y ELSE z

\* One row of the matrix of stringUtils.ts:9-30, filled from the row above
\* it; column j is kept at index j + 1.  `mismatch` is the cost of two
\* different characters.
RECURSIVE fillRow(_, _, _, _, _)
fillRow(row, above, a, c, mismatch) ==
    LET j == Len(row)
    IN  IF j > Len(a) THEN row
        ELSE fillRow(Append(row,
                        Min3(above[j + 1] + 1,
                             row[j] + 1,
                             above[j] + (IF a[j] = c THEN 0 ELSE mismatch))),
                     above, a, c, mismatch)

\* The last row of the matrix, rows i..b.length being filled below `above`.
RECURSIVE fillMatrix(_, _, _, _, _)
fillMatrix(above, a, b, i, mismatch) ==
    IF i > Len(b) THEN above
    ELSE fillMatrix(fillRow(<<i>>, above, a, b[i], mismatch),
                    a, b, i + 1, mismatch)

levenshteinMatrix(a, b, mismatch) ==
    fillMatrix([j \in 1..(Len(a) + 1) |-> j - 1], a, b, 1, mismatch)

\* The distance when a substitution is counted as a deletion and an
\* insertion.
levenshteinDistance_IndelOnly(a, b) ==
    levenshteinMatrix(a, b, 2)[Len(a) + 1]

levenshteinDistance(a, b) ==
    levenshteinMatrix(a, b, 1)[Len(a) + 1]

\* \w
IsWordChar(c) ==
    IsDigit(c) \/ c \in DOMAIN LowerOf \/ c \in DOMAIN UpperOf \/ c = "_"

\* .replace(/[^\w\s]/g, '')
removeSpecial(s) == SelectSeq(s, LAMBDA c : IsWordChar(c) \/ IsSpace(c))

\* .replace(/\s+/g, ' ')
RECURSIVE collapseSpaces(_)
collapseSpaces(s) ==
    IF Len(s) <= 1 THEN s
    ELSE IF IsSpace(s[1]) /\ IsSpace(s[2]) THEN collapseSpaces(Tail(s))
    ELSE <<s[1]>> \o collapseSpaces(Tail(s))

normalizeString(str) ==
    trim(removeSpecial(collapseSpaces(trim(toLowerCase(str)))))

\* similarity >= threshold for similarity = 1 - distance / maxLength and a
\* threshold of `tenths` tenths.  In IEEE doubles the comparison agrees
\* with the one on integers below for every 0 <= distance <= maxLength < 200.
similarEnough_Strict(distance, maxLength, tenths) ==
    distance * 10 < (10 - tenths) * maxLength

similarEnough(distance, maxLength, tenths) ==
    distance * 10 <= (10 - tenths) * maxLength

Longer(x, y) == IF Len(x) >= Len(y) THEN Len(x) ELSE Len(y)

fuzzyMatchStrings(a, b, tenths) ==
    LET normalizedA == normalizeString(a)
        normalizedB == normalizeString(b)
    IN  IF normalizedA = normalizedB THEN TRUE
        ELSE IF \/ includes(normalizedA, normalizedB)
                \/ includes(normalizedB, normalizedA)
        THEN TRUE
        ELSE similarEnough(levenshteinDistance(normalizedA, normalizedB),
                           Longer(normalizedA, normalizedB), tenths)

\* const normalize = (s) => String(s || '').toLowerCase().trim()...
normalize(s) == collapseSpaces(removeSpecial(trim(toLowerCase(s))))

sharesAWord(words1, words2) ==
    \E i \in 1..Len(words1), j \in 1..Len(words2) : words1[i] = words2[j]

isAbbreviation(short, long) ==
    IF Len(short) > Len(long)
    THEN startsWith(short, long) /\ Len(short) <= Len(long) + 2
    ELSE startsWith(long, short) /\ Len(long) <= Len(short) + 2

fuzzyMatch(str1, str2, tenths) ==
    IF str1 = <<>> \/ str2 = <<>> THEN FALSE
    ELSE
    LET s1 == normalize(str1)
        s2 == normalize(str2)
        words1 == split(s1, "space")
        words2 == split(s2, "space")
    IN  IF s1 = s2 THEN TRUE
        ELSE IF sharesAWord(words1, words2) THEN TRUE
        ELSE IF Len(words1) = 1 /\ Len(words2) = 1 /\ isAbbreviation(s1, s2)
        THEN TRUE
        ELSE similarEnough(levenshteinDistance(s1, s2), Longer(s1, s2), tenths)

---------------------------------------------------------------------------
(* Inputs of the string functions: for levenshteinDistance every pair of   *)
(* words over a two-letter alphabet and the pair kitten/sitting; for the   *)
(* two fuzzy matchers every pair of header texts and a threshold.          *)

WordAlphabet == {"a", "b"}

Words == UNION {[1..n -> WordAlphabet] : n \in 0..MaxWord}

Kitten == <<"k", "i", "t", "t", "e", "n">>
Sitting == <<"s", "i", "t", "t", "i", "n", "g">>

HeaderTexts ==
    {<<>>,
     <<"S", "e", "c">>,
     <<"S", "e", "c", "t", "i", "o", "n">>,
     <<"S", "e", "c", ".">>,
     <<"C", "S", "E">>,
     <<"E", "C", "E">>,
     <<"S", "t", "u", "d", "e", "n", "t", " ", "N", "a", "m", "e">>,
     <<"N", "a", "m", "e">>,
     <<"R", "o", "l", "l", " ", "N", "o">>,
     <<"R", "o", "l", "l", " ", "N", "u", "m", "b", "e", "r">>,
     <<"A", "t", "t", "e", "n", "d", "a", "n", "c", "e">>,
     <<"A", "t", "t", "e", "n", "d", "i", "n", "g">>,
     <<"P", "r", "o", "g", "r", "a", "m", "m", "e">>,
     <<"P", "r", "o", "g", "r", "a", "m">>,
     <<"E", "n", "r", "o", "l", "l", "m", "e", "n", "t">>,
     <<"E", "n", "r", "o", "l", "m", "e", "n", "t">>,
     <<"-">>}

\* threshold = 0.7, in tenths
DefaultThreshold == 7

Thresholds == {5, DefaultThreshold, 9}

StringInputs ==
    [of : {"distance"},
     a : Words \cup {Kitten, Sitting},
     b : Words \cup {Kitten, Sitting}]
    \cup
    [of : {"match"}, a : HeaderTexts, b : HeaderTexts, tenths : Thresholds]

InitStrings ==
    /\ pc = "ready"
    /\ input \in StringInputs
    /\ output = NoOutput
    /\ PageIdle

CallLevenshteinDistance ==
    /\ pc = "ready"
    /\ input.of = "distance"
    /\ output' = [fn |-> "levenshteinDistance",
                  value |-> levenshteinDistance(input.a, input.b)]
    /\ pc' = "done"
    /\ UNCHANGED input
    /\ UNCHANGED pageVars

CallFuzzyMatch ==
    /\ pc = "ready"
    /\ input.of = "match"
    /\ output' = [fn |-> "fuzzyMatch",
                  value |-> fuzzyMatch(input.a, input.b, input.tenths)]
    /\ pc' = "done"
    /\ UNCHANGED input
    /\ UNCHANGED pageVars

CallFuzzyMatchStrings ==
    /\ pc = "ready"
    /\ input.of = "match"
    /\ output' = [fn |-> "fuzzyMatchStrings",
                  value |-> fuzzyMatchStrings(input.a, input.b, input.tenths)]
    /\ pc' = "done"
    /\ UNCHANGED input
    /\ UNCHANGED pageVars

NextStrings ==
    \/ CallLevenshteinDistance
    \/ CallFuzzyMatch
    \/ CallFuzzyMatchStrings

SpecStrings == InitStrings /\ [][NextStrings]_vars

\* A text in lower case, without its non-word characters, its runs of
\* blanks collapsed and the blanks at its ends removed.
Canon(text) == trim(collapseSpaces(removeSpecial(toLowerCase(text))))

EitherContains(x, y) == includes(x, y) \/ includes(y, x)

\* C16: fuzzyMatch and fuzzyMatchStrings return true whenever, after
\* normalization, one argument is a substring of the other, in either
\* direction; in particular "Sec" matches "Section" at threshold 0.7.
C16_SubstringsMatch ==
    (/\ pc = "done"
     /\ output.fn \in {"fuzzyMatch", "fuzzyMatchStrings"}
     /\ EitherContains(Canon(input.a), Canon(input.b))) =>
        output.value = TRUE

\* C16 restricted to fuzzyMatchStrings, which tests containment.
C16_HoldsForFuzzyMatchStrings ==
    (/\ pc = "done"
     /\ output.fn = "fuzzyMatchStrings"
     /\ EitherContains(Canon(input.a), Canon(input.b))) =>
        output.value = TRUE

WordsOf(text) == Range(split(text, "space"))

\* The shorter text is a prefix of the longer and at most 2 characters
\* shorter.
Abbreviates(x, y) ==
    \/ startsWith(y, x) /\ Len(x) <= Len(y) /\ Len(y) <= Len(x) + 2
    \/ startsWith(x, y) /\ Len(y) <= Len(x) /\ Len(x) <= Len(y) + 2

\* None of the earlier rules of fuzzyMatch decides the pair.
OnlyTheDistanceDecides(x, y) ==
    /\ x # y
    /\ ~EitherContains(x, y)
    /\ WordsOf(x) \cap WordsOf(y) = {}
    /\ ~Abbreviates(x, y)

\* C17: when the two normalized strings are unequal, neither contains the
\* other, they share no whole word and neither abbreviates the other, the
\* matchers return true if and only if
\* 1 - levenshtein / max(len) >= threshold, that is
\* levenshtein * 10 <= (10 - tenths) * max(len); "CSE" and "ECE", at
\* distance 2 of 3, do not match.
C17_DistanceDecidesTheRest ==
    (/\ pc = "done"
     /\ output.fn \in {"fuzzyMatch", "fuzzyMatchStrings"}
     /\ OnlyTheDistanceDecides(Canon(input.a), Canon(input.b))) =>
        output.value =
            (levenshteinDistance(Canon(input.a), Canon(input.b)) * 10
                <= (10 - input.tenths)
                      * Longer(Canon(input.a), Canon(input.b)))

\* Witness of C17: fuzzyMatch compared "CSE" with "ECE" at the default
\* threshold and answered false.
C17_WitnessCseEce ==
    /\ pc = "done"
    /\ output.fn = "fuzzyMatch"
    /\ input.a = <<"C", "S", "E">> /\ input.b = <<"E", "C", "E">>
    /\ input.tenths = DefaultThreshold
    /\ OnlyTheDistanceDecides(Canon(input.a), Canon(input.b))
    /\ output.value = FALSE

\* t results from s by one insertion, deletion or substitution.
Without(s, i) == SubSeq(s, 1, i - 1) \o SubSeq(s, i + 1, Len(s))

OneEdit(s, t) ==
    \/ /\ Len(s) = Len(t)
       /\ Cardinality({i \in 1..Len(s) : s[i] # t[i]}) = 1
    \/ /\ Len(t) = Len(s) + 1
       /\ \E i \in 1..Len(t) : Without(t, i) = s
    \/ /\ Len(s) = Len(t) + 1
       /\ \E i \in 1..Len(s) : Without(s, i) = t

\* The words at most k edits away from s.
RECURSIVE WithinEdits(_, _)
WithinEdits(s, k) ==
    IF k = 0 THEN {s}
    ELSE LET near == WithinEdits(s, k - 1)
         IN  near \cup {t \in Words : \E u \in near : OneEdit(u, t)}

\* The least number of single-character edits that turn s into t.
MinEdits(s, t) ==
    CHOOSE k \in 0..(2 * MaxWord) :
        /\ t \in WithinEdits(s, k)
        /\ k > 0 => t \notin WithinEdits(s, k - 1)

\* C18: levenshteinDistance(a, b) is the least number of single-character
\* insertions, deletions and substitutions that turn a into b: it is 0
\* exactly when a = b, the length of the other string when one is empty,
\* the same in both argument orders, and 3 for "kitten" and "sitting".
C18_LevenshteinIsEditDistance ==
    (pc = "done" /\ output.fn = "levenshteinDistance") =>
        /\ (input.a \in Words /\ input.b \in Words) =>
                output.value = MinEdits(input.a, input.b)
        /\ output.value = 0 <=> input.a = input.b
        /\ input.a = <<>> => output.value = Len(input.b)
        /\ input.b = <<>> => output.value = Len(input.a)
        /\ output.value = levenshteinDistance(input.b, input.a)
        /\ (input.a = Kitten /\ input.b = Sitting) => output.value = 3

\* Witness of C18: the distance of "kitten" and "sitting" was computed and
\* is 3.
C18_WitnessKitten ==
    /\ pc = "done"
    /\ output.fn = "levenshteinDistance"
    /\ input.a = Kitten /\ input.b = Sitting
    /\ output.value = 3

---------------------------------------------------------------------------
(* parseExcel, src/utils/parseExcel.ts:82-113, on a workbook described by  *)
(* what its sheet holds: whether it can be read, the event details of the  *)
(* label/value rows, whether a student header row exists, and the cells of *)
(* the rows below it.                                                      *)

\* Title case of a name: every word capitalised.
toTitleCase(str) ==
    LET words == split(str, "space")
    IN  join([i \in 1..Len(words) |-> capitalize(words[i])], <<" ">>)

\* extractEventMetadata (parseExcel.ts:119-181): the details found, or the
\* error raised when none is.
extractEventMetadata(file) ==
    IF \A k \in DOMAIN file.details : file.details[k] = ""
    THEN [threw |-> TRUE, message |-> "Missing event details in rows 1-12."]
    ELSE [threw |-> FALSE, value |-> file.details]

\* The Student built from one row (parseExcel.ts:316-348).
studentOfRow(row) ==
    [name |-> toTitleCase(trim(row.name)),
     program |-> trim(row.program),
     section |-> trim(row.section),
     semester |-> trim(row.semester),
     group |-> trim(row.group),
     normalizedProgram |-> normalizeProgram(trim(row.program)),
     originalData |-> row]

\* extractStudents (parseExcel.ts:283-359): rows with an essential cell
\* missing are skipped; no header row gives no students.
extractStudents(file) ==
    IF ~file.header THEN <<>>
    ELSE LET students == [i \in 1..Len(file.rows) |-> studentOfRow(file.rows[i])]
         IN  SelectSeq(students,
                       LAMBDA st : /\ st.name # <<>> /\ st.program # <<>>
                                   /\ st.section # <<>> /\ st.semester # <<>>)

parseExcel(file) ==
    IF ~file.readable
    THEN [threw |-> TRUE,
          message |-> "Failed to parse Excel file: " \o file.readError]
    ELSE LET metadata == extractEventMetadata(file)
             students == extractStudents(file)
         IN  IF metadata.threw
             THEN [threw |-> TRUE,
                   message |-> "Failed to parse Excel file: " \o metadata.message]
             ELSE IF Len(students) = 0
             THEN [threw |-> TRUE,
                   message |-> "Failed to parse Excel file: "
                                \o "No valid student data found in the Excel file."]
             ELSE [threw |-> FALSE,
                   value |-> [metadata |-> metadata.value, students |-> students]]

---------------------------------------------------------------------------
(* The mail texts of handleGenerateMail and handleGmailDraft               *)
(* (page.tsx:66-98, 108-139) and exportODReport (report-exporter.ts:11-88).*)
(* A text is kept as the values it is assembled from.                      *)

hasMissedLectures(p) ==
    "missedLectures" \in DOMAIN p /\ Len(p.missedLectures) > 0

\* ml.subject || ml.subject_name || ''
subjectOf(ml) ==
    IF "subject" \in DOMAIN ml /\ ml.subject # <<>> THEN ml.subject
    ELSE IF "subject_name" \in DOMAIN ml THEN ml.subject_name
    ELSE <<>>

missedLecturesInfo(students) ==
    LET withMissed == SelectSeq(students, hasMissedLectures)
    IN  [i \in 1..Len(withMissed) |->
            [name |-> withMissed[i].name,
             lectures |-> [j \in 1..Len(withMissed[i].missedLectures) |->
                              subjectOf(withMissed[i].missedLectures[j])]]]

mailSubjectOf(meta) == [text |-> "OD Request - " \o meta.eventName]

mailBodyOf(meta, students, placeLabel, place) ==
    [eventName |-> meta.eventName,
     coordinator |-> meta.coordinator,
     eventDate |-> meta.eventDate,
     day |-> meta.day,
     place |-> <<placeLabel, place>>,
     eventTime |-> meta.eventTime,
     participants |-> [i \in 1..Len(students) |->
                          <<students[i].name, students[i].program,
                            students[i].section, students[i].semester>>],
     missedLectures |-> missedLecturesInfo(students)]

\* meta.eventVenue || meta.place || ""
venueOf(meta) == IF meta.eventVenue # "" THEN meta.eventVenue ELSE meta.place

\* The rows of the sheet "Students & Missed Lectures".
studentRows(students) ==
    flatten([i \in 1..Len(students) |->
        IF hasMissedLectures(students[i])
        THEN [j \in 1..Len(students[i].missedLectures) |->
                 <<students[i].name, students[i].program, students[i].section,
                   students[i].semester,
                   subjectOf(students[i].missedLectures[j])>>]
        ELSE <<<<students[i].name, students[i].program, students[i].section,
                 students[i].semester, <<>>>>>>])

\* exportODReport; written tells whether XLSX.writeFile succeeded.
exportODReport(data, written) ==
    IF Len(data.students) = 0
    THEN [success |-> FALSE,
          error |-> "No students or event data available for report."]
    ELSE IF ~written
    THEN [success |-> FALSE, error |-> "Failed to generate Excel file."]
    ELSE [success |-> TRUE, rows |-> studentRows(data.students)]

---------------------------------------------------------------------------
(* The OD generator page, page.tsx:35-177, and the workbooks uploaded.     *)

Row(name, program, section, semester, group) ==
    [name |-> name, program |-> program, section |-> section,
     semester |-> semester, group |-> group]

AshaRow == Row(<<" ", "a", "s", "h", "a", " ", "v", "e", "r", "m", "a">>, <<"b", "t", "e", "c", "h", " ", "c", "s", "e">>, <<"A">>, <<"1">>, <<>>)
BalaRow == Row(<<"B", "A", "L", "A">>, <<"B", ".", "T", "e", "c", "h", " ", "C", "S", "E", " ">>, <<"A">>, <<"1">>, <<"1">>)
DevRow == Row(<<"D", "e", "v">>, <<"m", "b", "a">>, <<"B">>, <<"3">>, <<>>)
BlankSemesterRow == Row(<<"G", "i", "t", "a">>, <<"B", "C", "A">>, <<"A">>, <<" ">>, <<>>)

Details(eventName, day, eventTime, venue) ==
    [eventName |-> eventName, coordinator |-> "Dr. Rao",
     eventDate |-> "2025-03-10", day |-> day, eventTime |-> eventTime,
     eventVenue |-> venue, place |-> venue, organizingDepartment |-> "",
     facultyIncharge |-> "", contactDetails |-> ""]

NoDetails == [coordinator |-> "", eventDate |-> ""] @@ Details("", "", "", "")

Workbook(readable, details, header, rows) ==
    [readable |-> readable, readError |-> "Unsupported file",
     details |-> details, header |-> header, rows |-> rows]

HackathonDetails == Details("Hackathon", "Monday", "09:15-10:10", "Auditorium")

Files ==
    {Workbook(TRUE, HackathonDetails, TRUE, <<AshaRow, BalaRow>>),
     Workbook(TRUE, Details("Quiz", "Tuesday", "14:15-15:10", ""), TRUE,
              <<BlankSemesterRow, DevRow>>),
     Workbook(TRUE, HackathonDetails, TRUE, <<BlankSemesterRow>>),
     Workbook(TRUE, HackathonDetails, FALSE, <<AshaRow>>),
     Workbook(TRUE, NoDetails, TRUE, <<AshaRow>>),
     Workbook(FALSE, NoDetails, FALSE, <<>>)}

TypedTexts == {[text |-> "Kindly approve."]}

TooLongWarning ==
    "Mail body too long for web draft. Please copy-paste manually."

InitPage ==
    /\ pc = "page"
    /\ input = Null
    /\ output = NoOutput
    /\ PageIdle

\* handleFileUpload up to its await (page.tsx:47-53); the drop zone is
\* disabled while isLoading (file-upload.tsx:23-30).
HandleFileUpload ==
    /\ pc = "page"
    /\ ~isLoading
    /\ \E file \in Files : upload' = Some(file)
    /\ isLoading' = TRUE
    /\ error' = Null
    /\ success' = Null
    /\ UNCHANGED <<eventData, gmailWarning, showMailModal, mailSubject,
                   mailBody, copyButtonText, copyTimers, effect>>
    /\ UNCHANGED callVars

\* handleFileUpload after parseExcel settled (page.tsx:53-60).
ParseExcelSettles ==
    /\ pc = "page"
    /\ upload # Null
    /\ LET data == parseExcel(upload[1])
       IN  IF data.threw
           THEN /\ error' = Some(data.message)
                /\ UNCHANGED <<eventData, success>>
           ELSE /\ eventData' = Some(data.value)
                /\ success' = Some("File uploaded and parsed successfully!")
                /\ UNCHANGED error
    /\ isLoading' = FALSE
    /\ upload' = Null
    /\ UNCHANGED <<gmailWarning, showMailModal, mailSubject, mailBody,
                   copyButtonText, copyTimers, effect>>
    /\ UNCHANGED callVars

\* handleGenerateMail without its first line, if (!eventData) return: the
\* modal is shown whether or not a file was parsed.
HandleGenerateMail_NoGuard ==
    /\ pc = "page"
    /\ IF eventData = Null
       THEN UNCHANGED <<mailSubject, mailBody>>
       ELSE LET meta == eventData[1].metadata
                students == eventData[1].students
            IN  /\ mailSubject' = mailSubjectOf(meta)
                /\ mailBody' = mailBodyOf(meta, students, "Venue", venueOf(meta))
    /\ showMailModal' = TRUE
    /\ UNCHANGED <<eventData, isLoading, error, success, gmailWarning,
                   copyButtonText, upload, copyTimers, effect>>
    /\ UNCHANGED callVars

\* page.tsx:63-102
HandleGenerateMail ==
    /\ pc = "page"
    /\ eventData # Null
    /\ LET meta == eventData[1].metadata
           students == eventData[1].students
       IN  /\ mailSubject' = mailSubjectOf(meta)
           /\ mailBody' = mailBodyOf(meta, students, "Venue", venueOf(meta))
    /\ showMailModal' = TRUE
    /\ UNCHANGED <<eventData, isLoading, error, success, gmailWarning,
                   copyButtonText, upload, copyTimers, effect>>
    /\ UNCHANGED callVars

\* page.tsx:104-146; whether the body exceeds 2000 characters depends on
\* the lengths of the texts, which are left open.
HandleGmailDraft ==
    /\ pc = "page"
    /\ eventData # Null
    /\ \E tooLong \in BOOLEAN :
          gmailWarning' = IF tooLong THEN Some(TooLongWarning) ELSE Null
    /\ LET meta == eventData[1].metadata
           students == eventData[1].students
       IN  effect' = Some([kind |-> "window",
                           subject |-> mailSubjectOf(meta),
                           body |-> mailBodyOf(meta, students,
                                               "Place", meta.place)])
    /\ UNCHANGED <<eventData, isLoading, error, success, showMailModal,
                   mailSubject, mailBody, copyButtonText, upload, copyTimers>>
    /\ UNCHANGED callVars

\* page.tsx:148-157; the button is in the mail modal.
HandleCopyMail ==
    /\ pc = "page"
    /\ showMailModal
    /\ copyTimers < MaxTimers
    /\ effect' = Some([kind |-> "clipboard",
                       subject |-> mailSubject, body |-> mailBody])
    /\ copyButtonText' = "Copied!"
    /\ success' = Some("Mail content copied to clipboard!")
    /\ copyTimers' = copyTimers + 1
    /\ UNCHANGED <<eventData, isLoading, error, gmailWarning, showMailModal,
                   mailSubject, mailBody, upload>>
    /\ UNCHANGED callVars

\* The timeout of handleCopyMail (page.tsx:154-156).
CopyTimerFires ==
    /\ pc = "page"
    /\ copyTimers > 0
    /\ copyButtonText' = "Copy to Clipboard"
    /\ copyTimers' = copyTimers - 1
    /\ UNCHANGED <<eventData, isLoading, error, success, gmailWarning,
                   showMailModal, mailSubject, mailBody, upload, effect>>
    /\ UNCHANGED callVars

\* page.tsx:159-167; the button is in the mail modal.
HandleSendMail ==
    /\ pc = "page"
    /\ showMailModal
    /\ \E tooLong \in BOOLEAN :
          gmailWarning' = IF tooLong THEN Some(TooLongWarning) ELSE gmailWarning
    /\ effect' = Some([kind |-> "window",
                       subject |-> mailSubject, body |-> mailBody])
    /\ showMailModal' = FALSE
    /\ UNCHANGED <<eventData, isLoading, error, success, mailSubject,
                   mailBody, copyButtonText, upload, copyTimers>>
    /\ UNCHANGED callVars

\* page.tsx:169-177
HandleDownloadReport ==
    /\ pc = "page"
    /\ eventData # Null
    /\ \E written \in BOOLEAN :
          LET result == exportODReport(eventData[1], written)
          IN  IF ~result.success
              THEN /\ error' = Some(result.error)
                   /\ UNCHANGED <<success, effect>>
              ELSE /\ success' = Some("OD report downloaded successfully!")
                   /\ effect' = Some([kind |-> "workbook",
                                      metadata |-> eventData[1].metadata,
                                      rows |-> result.rows])
                   /\ UNCHANGED error
    /\ UNCHANGED <<eventData, isLoading, gmailWarning, showMailModal,
                   mailSubject, mailBody, copyButtonText, upload, copyTimers>>
    /\ UNCHANGED callVars

\* The close button of the modal (page.tsx:185-191).
CloseMailModal ==
    /\ pc = "page"
    /\ showMailModal
    /\ showMailModal' = FALSE
    /\ UNCHANGED <<eventData, isLoading, error, success, gmailWarning,
                   mailSubject, mailBody, copyButtonText, upload, copyTimers,
                   effect>>
    /\ UNCHANGED callVars

\* The subject field of the modal (page.tsx:197-201).
EditMailSubject ==
    /\ pc = "page"
    /\ showMailModal
    /\ \E typed \in TypedTexts : mailSubject' = typed
    /\ UNCHANGED <<eventData, isLoading, error, success, gmailWarning,
                   showMailModal, mailBody, copyButtonText, upload, copyTimers,
                   effect>>
    /\ UNCHANGED callVars

\* The body field of the modal (page.tsx:205-213).
EditMailBody ==
    /\ pc = "page"
    /\ showMailModal
    /\ \E typed \in TypedTexts : mailBody' = typed
    /\ UNCHANGED <<eventData, isLoading, error, success, gmailWarning,
                   showMailModal, mailSubject, copyButtonText, upload,
                   copyTimers, effect>>
    /\ UNCHANGED callVars

NextPage ==
    \/ HandleFileUpload
    \/ ParseExcelSettles
    \/ HandleGenerateMail
    \/ HandleGmailDraft
    \/ HandleCopyMail
    \/ CopyTimerFires
    \/ HandleSendMail
    \/ HandleDownloadReport
    \/ CloseMailModal
    \/ EditMailSubject
    \/ EditMailBody

SpecPage == InitPage /\ [][NextPage]_vars

\* C6: in the upload flow missed-lecture resolution runs between parsing
\* and mail or report generation: after a successful upload the student
\* records the mail and report actions read are the output of
\* calculateMissedLectures, so every student carries a missedLectures list
\* before any mail or report can be produced.
C6_UploadedStudentsCarryMissedLectures ==
    (pc = "page" /\ eventData # Null) =>
        \A i \in 1..Len(eventData[1].students) :
            "missedLectures" \in DOMAIN eventData[1].students[i]

---------------------------------------------------------------------------
(* The sheet as parseExcel reads it: a 2-D grid of text cells, a sequence  *)
(* of rows, each a sequence of cells.  Rows and columns are counted from 1 *)
(* here where the code counts from 0.                                      *)

\* String(row[j] || '')
cellAt(row, j) == IF j \in 1..Len(row) THEN row[j] ELSE <<>>

IsLetter(c) == c \in DOMAIN UpperOf \/ c \in DOMAIN LowerOf

\* norm (part_002:192): letters only, lowercased;
\* String(header).toLowerCase().replace(/[^a-z]/g, '') gives the same text.
norm(s) == toLowerCase(SelectSeq(s, LAMBDA c : IsLetter(c)))

\* row.filter(Boolean)
filterBoolean(row) == SelectSeq(row, LAMBDA cell : cell # <<>>)

\* row.every(cell => !String(cell).trim())
isBlankRow(row) == \A j \in 1..Len(row) : trim(row[j]) = <<>>

EmptyMap == [key \in {} |-> 0]

LeastOf(S) == CHOOSE i \in S : \A j \in S : i <= j

SmallerOf(a, b) == IF a < b THEN a ELSE b

\* HEADERS (part_002:194-199), in the order Object.entries visits them.
HeaderNames == <<"name", "program", "section", "semester">>

HEADERS ==
    [name |-> <<<<"s", "t", "u", "d", "e", "n", "t", "n", "a", "m", "e">>, <<"n", "a", "m", "e">>>>,
     program |-> <<<<"p", "r", "o", "g", "r", "a", "m">>, <<"p", "r", "o", "g", "r", "a", "m", "m", "e">>, <<"b", "r", "a", "n", "c", "h">>>>,
     section |-> <<<<"s", "e", "c", "t", "i", "o", "n">>, <<"s", "e", "c">>>>,
     semester |-> <<<<"s", "e", "m", "e", "s", "t", "e", "r">>, <<"s", "e", "m">>>>]

\* variants.some(v => ncell.includes(v))
namesColumn(ncell, key) ==
    \E v \in 1..Len(HEADERS[key]) : includes(ncell, HEADERS[key][v])

\* The inner loop of part_002:206-219: a cell is given to the first column
\* not yet mapped that it names.
RECURSIVE scanHeaderRow(_, _, _)
scanHeaderRow(row, j, map) ==
    IF j > Len(row) THEN map
    ELSE LET cell == trim(cellAt(row, j))
             free == SelectSeq(HeaderNames,
                         LAMBDA key : /\ key \notin DOMAIN map
                                      /\ namesColumn(norm(cell), key))
         IN  IF cell = <<>> \/ free = <<>>
             THEN scanHeaderRow(row, j + 1, map)
             ELSE scanHeaderRow(row, j + 1, map @@ (free[1] :> j))

RECURSIVE findStudentHeaderFrom(_, _)
findStudentHeaderFrom(data, i) ==
    IF i > SmallerOf(30, Len(data))
    THEN [threw |-> TRUE,
          message |-> "Student headers not found. Expected: Student Name, Program, Section, Semester."]
    ELSE LET map == scanHeaderRow(data[i], 1, EmptyMap)
             missing == SelectSeq(HeaderNames, LAMBDA req : req \notin DOMAIN map)
         IN  IF Cardinality(DOMAIN map) < 3
             THEN findStudentHeaderFrom(data, i + 1)
             ELSE IF missing # <<>>
             THEN [threw |-> TRUE,
                   message |-> "Missing column: " \o missing[1] \o ". Detected headers: ",
                   detected |-> filterBoolean(data[i])]
             ELSE [threw |-> FALSE,
                   value |-> [headerRowIdx |-> i, colMap |-> map,
                              detectedHeaders |-> filterBoolean(data[i])]]

\* findStudentHeaderRowAndMap (part_002:186-233, parseExcel.ts:187-234).
findStudentHeaderRowAndMap(data) == findStudentHeaderFrom(data, 1)

\* One pushed student of part_002:247-264.
mappedStudent(row, colMap) ==
    LET rawProgram == trim(cellAt(row, colMap.program))
    IN  [name |-> toTitleCase(trim(cellAt(row, colMap.name))),
         program |-> normalizeProgram(rawProgram),
         section |-> toUpperCase(trim(cellAt(row, colMap.section))),
         semester |-> trim(cellAt(row, colMap.semester)),
         normalizedProgram |-> normalizeProgram(rawProgram),
         originalData |-> [program |-> rawProgram,
                           section |-> toUpperCase(trim(cellAt(row, colMap.section))),
                           semester |-> trim(cellAt(row, colMap.semester))]]

\* extractStudents (part_002:238-267): only a row with all four fields
\* empty is left out.
extractStudents_Mapped(data, headerRowIdx, colMap) ==
    LET below == SubSeq(data, headerRowIdx + 1, Len(data))
        kept == SelectSeq(below, LAMBDA row : ~isBlankRow(row))
        students == [i \in 1..Len(kept) |-> mappedStudent(kept[i], colMap)]
    IN  SelectSeq(students,
                  LAMBDA st : ~(/\ st.name = <<>> /\ st.program = <<>>
                                /\ st.section = <<>> /\ st.semester = <<>>))

\* metaKeys (parseExcel.ts:121-132), in the order Object.entries visits them.
metaKeys ==
    << <<<<"e", "v", "e", "n", "t", "n", "a", "m", "e">>, "eventName">>, <<<<"c", "o", "o", "r", "d", "i", "n", "a", "t", "o", "r">>, "coordinator">>,
       <<<<"e", "v", "e", "n", "t", "d", "a", "t", "e">>, "eventDate">>, <<<<"d", "a", "y">>, "day">>,
       <<<<"p", "l", "a", "c", "e">>, "place">>, <<<<"e", "v", "e", "n", "t", "t", "i", "m", "e">>, "eventTime">>,
       <<<<"e", "v", "e", "n", "t", "v", "e", "n", "u", "e">>, "eventVenue">>,
       <<<<"o", "r", "g", "a", "n", "i", "z", "i", "n", "g", "d", "e", "p", "a", "r", "t", "m", "e", "n", "t">>, "organizingDepartment">>,
       <<<<"f", "a", "c", "u", "l", "t", "y", "i", "n", "c", "h", "a", "r", "g", "e">>, "facultyIncharge">>,
       <<<<"c", "o", "n", "t", "a", "c", "t", "d", "e", "t", "a", "i", "l", "s">>, "contactDetails">> >>

EmptyMetadata ==
    [eventName |-> <<>>, eventDate |-> <<>>, eventTime |-> <<>>,
     eventVenue |-> <<>>, organizingDepartment |-> <<>>,
     facultyIncharge |-> <<>>, contactDetails |-> <<>>, coordinator |-> <<>>,
     day |-> <<>>, place |-> <<>>]

\* One turn of the loop of parseExcel.ts:146-166.
metadataOfRow(row, meta) ==
    LET value == trim(cellAt(row, 2))
        label == norm(cellAt(row, 1))
        hits == SelectSeq(metaKeys, LAMBDA pair : includes(label, pair[1]))
    IN  IF Len(row) < 2 \/ value = <<>> THEN meta
        ELSE IF includes(label, <<"v", "e", "n", "u", "e">>) \/ includes(label, <<"p", "l", "a", "c", "e">>)
        THEN [meta EXCEPT !.eventVenue = IF @ = <<>> THEN value ELSE @,
                          !.place = IF @ = <<>> THEN value ELSE @]
        ELSE IF hits = <<>> THEN meta
        ELSE [meta EXCEPT ![hits[1][2]] = value]

RECURSIVE metadataFrom(_, _, _)
metadataFrom(data, i, meta) ==
    IF i > SmallerOf(12, Len(data)) THEN meta
    ELSE metadataFrom(data, i + 1, metadataOfRow(data[i], meta))

\* extractEventMetadata (parseExcel.ts:119-181, part_002:118-180) on the
\* grid.
extractEventMetadata_Rows(data) ==
    LET meta == metadataFrom(data, 1, EmptyMetadata)
    IN  IF \A k \in DOMAIN meta : meta[k] = <<>>
        THEN [threw |-> TRUE, message |-> "Missing event details in rows 1-12."]
        ELSE [threw |-> FALSE, value |-> meta]

\* parseExcel of part_002:89-112; an error of a step leaves the function
\* as it was thrown.
parseExcel_Mapped(data) ==
    LET metadata == extractEventMetadata_Rows(data)
        header == findStudentHeaderRowAndMap(data)
        students == extractStudents_Mapped(data, header.value.headerRowIdx,
                                           header.value.colMap)
    IN  IF metadata.threw THEN metadata
        ELSE IF header.threw THEN header
        ELSE IF Len(students) = 0
        THEN [threw |-> TRUE, message |-> "No student data found below headers."]
        ELSE [threw |-> FALSE,
              value |-> [metadata |-> metadata.value, students |-> students]]

headerKeywords ==
    <<<<"s", "t", "u", "d", "e", "n", "t">>, <<"n", "a", "m", "e">>, <<"p", "r", "o", "g", "r", "a", "m">>, <<"s", "e", "c", "t", "i", "o", "n">>, <<"s", "e", "m", "e", "s", "t", "e", "r">>, <<"g", "r", "o", "u", "p">>>>

\* findHeaderRow (parseExcel.ts:241-276); -1 when no row is found.
findHeaderRow(rows) ==
    LET scanned == 1..SmallerOf(Len(rows), 20)
        rowText(i) == join([j \in 1..Len(rows[i]) |-> toLowerCase(rows[i][j])], <<" ">>)
        matches(i) == SelectSeq(headerKeywords,
                                LAMBDA keyword : includes(rowText(i), keyword))
        byKeywords == {i \in scanned : Len(matches(i)) >= 3}
        hasStudentName(i) ==
            \E j \in 1..Len(rows[i]) :
                /\ includes(toLowerCase(rows[i][j]), <<"s", "t", "u", "d", "e", "n", "t">>)
                /\ includes(toLowerCase(rows[i][j]), <<"n", "a", "m", "e">>)
        byStudentName == {i \in scanned : hasStudentName(i)}
    IN  IF byKeywords # {} THEN LeastOf(byKeywords)
        ELSE IF byStudentName # {} THEN LeastOf(byStudentName)
        ELSE -1

\* The branch of parseExcel.ts:375-385 a header falls in.
columnOfHeader(normalizedHeader) ==
    IF includes(normalizedHeader, <<"n", "a", "m", "e">>) \/ includes(normalizedHeader, <<"s", "t", "u", "d", "e", "n", "t">>)
    THEN "name"
    ELSE IF includes(normalizedHeader, <<"p", "r", "o", "g", "r", "a", "m">>) \/ includes(normalizedHeader, <<"p", "r", "o", "g", "r", "a", "m", "m", "e">>)
    THEN "program"
    ELSE IF includes(normalizedHeader, <<"s", "e", "c", "t", "i", "o", "n">>) THEN "section"
    ELSE IF includes(normalizedHeader, <<"s", "e", "m", "e", "s", "t", "e", "r">>) \/ includes(normalizedHeader, <<"s", "e", "m">>)
    THEN "semester"
    ELSE IF includes(normalizedHeader, <<"g", "r", "o", "u", "p">>) THEN "group"
    ELSE "none"

RECURSIVE mapColumnsFrom(_, _, _)
mapColumnsFrom(headerRow, index, mapping) ==
    IF index > Len(headerRow) THEN mapping
    ELSE LET column == columnOfHeader(norm(headerRow[index]))
         IN  IF headerRow[index] = <<>> \/ column = "none"
             THEN mapColumnsFrom(headerRow, index + 1, mapping)
             ELSE mapColumnsFrom(headerRow, index + 1, (column :> index) @@ mapping)

\* mapStudentColumns (parseExcel.ts:366-389): a later header of a column
\* replaces an earlier one.
mapStudentColumns(headerRow) == mapColumnsFrom(headerRow, 1, EmptyMap)

\* extractStudents (parseExcel.ts:283-359) on the grid.
extractStudents_Rows(rows) ==
    LET headerRowIndex == findHeaderRow(rows)
        colMap == mapStudentColumns(rows[headerRowIndex])
        cellOf(row, column) ==
            IF column \in DOMAIN colMap THEN cellAt(row, colMap[column]) ELSE <<>>
        below == SubSeq(rows, headerRowIndex + 1, Len(rows))
        kept == SelectSeq(below, LAMBDA row : ~isBlankRow(row))
        students ==
            [i \in 1..Len(kept) |->
                studentOfRow(Row(cellOf(kept[i], "name"), cellOf(kept[i], "program"),
                                 cellOf(kept[i], "section"), cellOf(kept[i], "semester"),
                                 cellOf(kept[i], "group")))]
    IN  IF Len(rows) = 0 \/ headerRowIndex = -1 THEN <<>>
        ELSE SelectSeq(students,
                       LAMBDA st : /\ st.name # <<>> /\ st.program # <<>>
                                   /\ st.section # <<>> /\ st.semester # <<>>)

\* parseExcel (parseExcel.ts:82-113) on the grid of a readable file.
parseExcel_Rows(rows) ==
    LET metadata == extractEventMetadata_Rows(rows)
        students == extractStudents_Rows(rows)
    IN  IF metadata.threw
        THEN [threw |-> TRUE,
              message |-> "Failed to parse Excel file: " \o metadata.message]
        ELSE IF Len(students) = 0
        THEN [threw |-> TRUE,
              message |-> "Failed to parse Excel file: "
                           \o "No valid student data found in the Excel file."]
        ELSE [threw |-> FALSE,
              value |-> [metadata |-> metadata.value, students |-> students]]

---------------------------------------------------------------------------
(* Calls of the sheet readers on sheets assembled from label/value rows,   *)
(* a header row and student rows.                                          *)

EventNameRow == <<<<"E", "v", "e", "n", "t", " ", "N", "a", "m", "e">>, <<"H", "a", "c", "k", "a", "t", "h", "o", "n">>>>
DayRow == <<<<"D", "a", "y", ":">>, <<"M", "o", "n", "d", "a", "y">>>>
BlankRows == [i \in 1..10 |-> <<>>]

SheetTops ==
    {<<>>, <<EventNameRow>>, <<EventNameRow, DayRow>>, <<EventNameRow>> \o BlankRows}

FullHeader == <<<<"S", "t", "u", "d", "e", "n", "t", " ", "N", "a", "m", "e">>, <<"P", "r", "o", "g", "r", "a", "m">>, <<"S", "e", "c", "t", "i", "o", "n">>, <<"S", "e", "m", "e", "s", "t", "e", "r">>>>
NumberedHeader == <<<<"S", ".", "N", "o">>, <<"N", "A", "M", "E">>, <<"B", "r", "a", "n", "c", "h">>, <<"S", "e", "c">>, <<"S", "e", "m">>>>
NoSemesterHeader == <<<<"S", "t", "u", "d", "e", "n", "t", " ", "N", "a", "m", "e">>, <<"P", "r", "o", "g", "r", "a", "m">>, <<"S", "e", "c", "t", "i", "o", "n">>>>
NoProgramHeader == <<<<"S", "t", "u", "d", "e", "n", "t", " ", "N", "a", "m", "e">>, <<"S", "e", "c", "t", "i", "o", "n">>, <<"S", "e", "m", "e", "s", "t", "e", "r">>, <<"G", "r", "o", "u", "p">>>>
TwoColumnHeader == <<<<"S", "t", "u", "d", "e", "n", "t", " ", "N", "a", "m", "e">>, <<"P", "r", "o", "g", "r", "a", "m">>>>
SheetHeaders ==
    {<<>>, <<FullHeader>>, <<NumberedHeader>>, <<NoSemesterHeader>>,
     <<NoProgramHeader>>, <<TwoColumnHeader>>}

AshaCells == <<<<"a", "s", "h", "a", " ", "v", "e", "r", "m", "a">>, <<"B", "C", "A">>, <<"A">>, <<"1">>>>
DayanandCells == <<<<"D", "a", "y", "a", "n", "a", "n", "d", " ", "R", "a", "o">>, <<"B", ".", "T", "e", "c", "h", " ", "C", "S", "E">>, <<"b">>, <<"3">>>>
NoProgramCells == <<<<"G", "i", "t", "a">>, <<>>, <<"A">>, <<"1">>>>
NumberedCells == <<<<"1">>, <<"A", "s", "h", "a", " ", "V", "e", "r", "m", "a">>, <<"B", "C", "A">>, <<"A">>, <<"1">>>>
SheetBodies ==
    {<<>>, <<AshaCells>>, <<DayanandCells, AshaCells>>, <<NoProgramCells>>,
     <<NumberedCells>>}

SheetInputs ==
    {[top |-> top, header |-> header, body |-> body,
      data |-> top \o header \o body] :
        top \in SheetTops, header \in SheetHeaders, body \in SheetBodies}

InitSheet ==
    /\ pc = "sheet"
    /\ input \in SheetInputs
    /\ output = NoOutput
    /\ PageIdle

CallFindStudentHeaderRowAndMap ==
    /\ pc = "sheet"
    /\ pc' = "done"
    /\ output' = [fn |-> "findStudentHeaderRowAndMap",
                  value |-> findStudentHeaderRowAndMap(input.data)]
    /\ UNCHANGED input
    /\ UNCHANGED pageVars

CallExtractEventMetadata ==
    /\ pc = "sheet"
    /\ pc' = "done"
    /\ output' = [fn |-> "extractEventMetadata",
                  value |-> extractEventMetadata_Rows(input.data)]
    /\ UNCHANGED input
    /\ UNCHANGED pageVars

CallParseExcel_Mapped ==
    /\ pc = "sheet"
    /\ pc' = "done"
    /\ output' = [fn |-> "parseExcel_Mapped", value |-> parseExcel_Mapped(input.data)]
    /\ UNCHANGED input
    /\ UNCHANGED pageVars

CallParseExcel_Rows ==
    /\ pc = "sheet"
    /\ pc' = "done"
    /\ output' = [fn |-> "parseExcel_Rows", value |-> parseExcel_Rows(input.data)]
    /\ UNCHANGED input
    /\ UNCHANGED pageVars

NextSheet ==
    \/ CallFindStudentHeaderRowAndMap
    \/ CallExtractEventMetadata
    \/ CallParseExcel_Mapped
    \/ CallParseExcel_Rows

SpecSheet == InitSheet /\ [][NextSheet]_vars

\* The required columns a row names in some cell.
ColumnsNamed(row) ==
    {key \in DOMAIN HEADERS :
        \E j \in 1..Len(row) : namesColumn(norm(trim(row[j])), key)}

\* The rows with at least 3 recognized column tokens.
HeaderCandidates(data) ==
    {i \in 1..Len(data) : Cardinality(ColumnsNamed(data[i])) >= 3}

\* The sheet has a header row naming all four required columns.
WellFormed(data) ==
    /\ HeaderCandidates(data) # {}
    /\ ColumnsNamed(data[LeastOf(HeaderCandidates(data))]) = DOMAIN HEADERS

\* The error names the cells of the header row that was detected.
NamesDetectedHeaders(result, data) ==
    /\ "detected" \in DOMAIN result
    /\ result.detected = filterBoolean(data[LeastOf(HeaderCandidates(data))])

HasEventDetails(data) == ~extractEventMetadata_Rows(data).threw

\* What C21 asks of the result of a parse of a sheet with event details.
FailsHard(result, data) ==
    /\ ~WellFormed(data) =>
        /\ result.threw
        /\ HeaderCandidates(data) # {} => NamesDetectedHeaders(result, data)
    /\ ~result.threw => WellFormed(data)

\* C21: on a sheet whose first row with at least 3 recognized column
\* tokens misses a required column, or that has no such row, parsing
\* throws, the error naming the detected headers when a column is missing,
\* and students are returned only from a sheet whose header row names all
\* four required columns; in both parsers.
C21_MalformedSheetFailsHard ==
    (/\ pc = "done"
     /\ output.fn \in {"parseExcel_Mapped", "parseExcel_Rows"}
     /\ HasEventDetails(input.data))
        => FailsHard(output.value, input.data)

\* C21 for findStudentHeaderRowAndMap and the parseExcel built on it: the
\* first row with at least 3 tokens is the header, a missing column or a
\* missing header row throws with the detected headers named, and on
\* success the four columns are mapped to four different cells of that row.
C21_HoldsForHeaderRowAndMap ==
    /\ (/\ pc = "done"
        /\ output.fn = "parseExcel_Mapped"
        /\ HasEventDetails(input.data))
            => FailsHard(output.value, input.data)
    /\ (pc = "done" /\ output.fn = "findStudentHeaderRowAndMap") =>
        /\ FailsHard(output.value, input.data)
        /\ ~output.value.threw =>
            LET found == output.value.value
            IN  /\ found.headerRowIdx = LeastOf(HeaderCandidates(input.data))
                /\ DOMAIN found.colMap = DOMAIN HEADERS
                /\ \A a, b \in DOMAIN found.colMap :
                        a # b => found.colMap[a] # found.colMap[b]
                /\ \A key \in DOMAIN found.colMap :
                        namesColumn(norm(trim(cellAt(input.data[found.headerRowIdx],
                                                     found.colMap[key]))), key)

---------------------------------------------------------------------------
(* Event slots and repeated entries, under the pipeline specification.     *)

\* The number of event slots the entry overlaps on the event day.
SlotsOverlapping(e, x) ==
    Cardinality({k \in 1..Len(x.ranges) :
                    e.day = x.eventDay /\ RangeOverlaps(e, x.ranges[k])})

\* The entries of the section the student sits in: every course, and the
\* labs of the student's group (every lab for a student without group).
AttendedEntries(student, x) ==
    Range(EntriesOf(student, CoursePool, x.courses))
        \cup {lab \in Range(EntriesOf(student, LabPool, x.labs)) :
                student.group = <<>> \/ lab.group = GroupPrefix \o student.group}

\* Event and entries are written with the en dash both pipelines read.
WrittenWithEnDash(x) == x.dash = <<EnDash>> /\ x.entryDash = <<EnDash>>

OncePerOverlappingSlot ==
    \A i \in 1..Len(input.students) :
        HasTimetableEntry(input.students[i]) =>
            \A e \in AttendedEntries(input.students[i], input) :
                CountOf(Records[i].missedLectures, e.code)
                    = SlotsOverlapping(e, input)

\* C22: an entry of the student's section that overlaps j of the event's
\* slots is listed exactly j times in the student's missedLectures, in
\* both pipelines.
C22_OncePerOverlappingSlot ==
    (Returned /\ WrittenWithEnDash(input)) => OncePerOverlappingSlot

\* C22 for the Programs pipeline, which visits the entries once for every
\* event slot.
C22_HoldsForPrograms ==
    (/\ Returned
     /\ output.fn = "calculateMissedLectures_Programs"
     /\ WrittenWithEnDash(input)) => OncePerOverlappingSlot

---------------------------------------------------------------------------
(* calculateMissedLectures of the Programs pipeline with its arguments     *)
(* kept as objects: every step gives back, next to what it returns, the    *)
(* objects it was handed as they are after the step.                       *)

\* Object.assign(student, { missedLectures }), which the code does not do.
spreadStudent_Assign(student, missedLectures) ==
    [created |-> withMissedLectures(student, missedLectures),
     student |-> withMissedLectures(student, missedLectures)]

\* { ...student, missedLectures } (page.tsx:766-769): a new object; the
\* student it is spread from is not written.
spreadStudent(student, missedLectures) ==
    [created |-> withMissedLectures(student, missedLectures),
     student |-> student]

\* students.forEach of page.tsx:759-781, given what
\* findMissedLecturesForStudent does for every student: the loop stops at
\* the first student whose resolution throws.
forEachStudent(students, found, timetable) ==
    LET throwers == {i \in 1..Len(students) : found[i].threw}
        pushed == [i \in 1..Len(students) |->
                     IF \A j \in throwers : i < j
                     THEN spreadStudent(students[i], found[i].value)
                     ELSE [created |-> <<>>, student |-> students[i]]]
    IN  [threw |-> throwers # {},
         value |-> IF throwers # {} THEN <<>>
                   ELSE [i \in 1..Len(students) |-> pushed[i].created],
         students |-> [i \in 1..Len(students) |-> pushed[i].student],
         timetable |-> timetable]

\* calculateMissedLectures (page.tsx:739-789).
calculateMissedLectures_OnObjects(students, eventTime, eventDay, timetable) ==
    forEachStudent(
        students,
        [i \in 1..Len(students) |->
            findMissedLecturesForStudent_Programs(
                students[i], parseEventTimeSlots_Programs(eventTime),
                eventDay, timetable)],
        timetable)

\* The pipeline inputs whose section is empty or holds every entry.
FrameCalls ==
    UNION {
      [students : Rosters,
       ranges : UNION {[1..k -> EventRanges(dash)] : k \in 0..MaxSlots}
                    \cup {OverlappingRanges(dash)},
       sep : {<<"_">>},
       eventDay : {Monday},
       courses : {0, Len(CoursePool)},
       labs : {0, Len(LabPool)},
       entryDash : {<<"-">>, <<EnDash>>},
       dash : {dash}] : dash \in {<<"-">>, <<EnDash>>}}

\* The roster and the timetable object the call is handed.
FrameInput(x) ==
    [call |-> x, students |-> x.students, timetable |-> ProgramsTimetable(x)]

InitFrame ==
    /\ pc = "ready"
    /\ \E x \in FrameCalls : input = FrameInput(x)
    /\ output = NoOutput
    /\ PageIdle

\* The call returns or throws, and the roster and the timetable are left
\* as the call leaves them.
CallCalculateMissedLectures_OnObjects ==
    /\ pc = "ready"
    /\ output' = [fn |-> "calculateMissedLectures_OnObjects",
                  value |-> calculateMissedLectures_OnObjects(
                                input.students, EventTimeText(input.call),
                                input.call.eventDay, input.timetable)]
    /\ input' = [input EXCEPT !.students = output'.value.students,
                              !.timetable = output'.value.timetable]
    /\ pc' = "done"
    /\ UNCHANGED pageVars

NextFrame == CallCalculateMissedLectures_OnObjects

SpecFrame == InitFrame /\ [][NextFrame]_vars

\* C23: after calculateMissedLectures the timetable and every student of
\* the roster are what they were before the call, whether it returned or
\* threw, and a returned record has the fields and values of its student
\* and the one added field missedLectures.
C23_InputsUnchanged ==
    pc = "done" =>
        /\ input.students = input.call.students
        /\ input.timetable = ProgramsTimetable(input.call)
        /\ ~output.value.threw =>
            /\ Len(Records) = Len(input.call.students)
            /\ \A i \in 1..Len(Records) :
                LET student == input.call.students[i]
                IN  /\ DOMAIN Records[i] = DOMAIN student \cup {"missedLectures"}
                    /\ "missedLectures" \notin DOMAIN student
                    /\ \A f \in DOMAIN student : Records[i][f] = student[f]

\* Witness of C23: a call returned records for two students, one of them
\* with missed lectures.
C23_WitnessRecordAdded ==
    /\ pc = "done"
    /\ ~output.value.threw
    /\ Len(Records) = 2
    /\ \E i \in 1..2 : Len(Records[i].missedLectures) > 0
    /\ input.students = input.call.students

---------------------------------------------------------------------------
(* A student's record against the rest of the roster.                      *)

reversed(seq) == [i \in 1..Len(seq) |-> seq[Len(seq) + 1 - i]]

\* The call of the pipeline that ran, on another roster with the same
\* event and timetable.
ResolvedWith(roster) ==
    IF output.fn = "calculateMissedLectures_Programs"
    THEN calculateMissedLectures_Programs(roster, EventTimeText(input),
                                          input.eventDay, ProgramsTimetable(input))
    ELSE calculateMissedLectures_Nested(roster, EventTimeText(input),
                                        input.eventDay, NestedTimetable(input))

\* Every student the pipeline can resolve alone has, at its place in the
\* result of the roster, the record it gets alone, and at the mirrored
\* place when the roster is reversed.
ResolvedIndependently ==
    \A i \in 1..Len(input.students) :
        LET alone == ResolvedWith(<<input.students[i]>>)
            mirrored == ResolvedWith(reversed(input.students))
        IN  ~alone.threw =>
                /\ Returned
                /\ Records[i].name = input.students[i].name
                /\ Records[i] = alone.value[1]
                /\ ~mirrored.threw
                /\ mirrored.value[Len(input.students) + 1 - i] = Records[i]

\* C24: the i-th record belongs to the i-th student and is the record the
\* student gets from the same event and timetable in any other roster, in
\* both pipelines of the page.
C24_StudentsResolvedIndependently ==
    pc = "done" => ResolvedIndependently

\* C24 for the nested pipeline, which never throws.
C24_HoldsForNested ==
    (pc = "done" /\ output.fn = "calculateMissedLectures_Nested")
        => ResolvedIndependently

\* C24 for processStudentsWithMissedLectures: the record of the student in
\* rosters with other students before and after is the record the student
\* gets alone.
C24_HoldsForProcessStudents ==
    (pc = "done" /\ output.fn = "processStudentsWithMissedLectures") =>
        \A roster \in {<<StudentPool[4], ScheduleRoster[1]>>,
                       <<ScheduleRoster[1], StudentPool[2]>>,
                       <<StudentPool[3], ScheduleRoster[1], StudentPool[4]>>} :
            LET whole == processStudentsWithMissedLectures(
                             roster, ScheduleTimetable_Programs(input), <<>>,
                             input.eventDay, ScheduleEventTime(input))
            IN  /\ ~whole.threw
                /\ Len(whole.value) = Len(roster)
                /\ \A i \in 1..Len(roster) :
                        /\ whole.value[i].name = roster[i].name
                        /\ roster[i] = ScheduleRoster[1]
                                => whole.value[i] = Records[1]

---------------------------------------------------------------------------
(* Where the event metadata comes from, under the sheet specification.     *)

\* The trimmed cells of the given rows.
CellsOf(rows) ==
    UNION {{trim(rows[i][j]) : j \in 1..Len(rows[i])} : i \in 1..Len(rows)}

MetadataFields ==
    {"eventName", "eventDate", "day", "eventVenue", "eventTime", "coordinator"}

\* No metadata field holds the text of a cell of the given rows.
NoFieldFrom(meta, rows) ==
    \A field \in MetadataFields :
        meta[field] # <<>> => meta[field] \notin CellsOf(rows)

\* C26: no cell of the student header row or of a student row becomes the
\* value of a metadata field, wherever in the first 12 rows the header
\* row lies.
C26_MetadataOnlyFromLabelRows ==
    (/\ pc = "done"
     /\ output.fn = "extractEventMetadata"
     /\ ~output.value.threw
     /\ WellFormed(input.data)
     /\ Len(input.top) < 12)
        => NoFieldFrom(output.value.value, input.header \o input.body)

\* C26 for the header row, and for the student rows that lie below the
\* 12 rows extractEventMetadata reads.
C26_HoldsForHeaderAndRowsBelowTwelve ==
    (/\ pc = "done"
     /\ output.fn = "extractEventMetadata"
     /\ ~output.value.threw)
        => /\ NoFieldFrom(output.value.value, input.header)
           /\ Len(input.top \o input.header) >= 12
                => NoFieldFrom(output.value.value, input.body)

---------------------------------------------------------------------------
(* Uploads, alerts and effects of the page, under the page specification.  *)

\* The messages handleFileUpload shows for the files that fail to parse.
ParseFailures ==
    {parseExcel(file).message : file \in {f \in Files : parseExcel(f).threw}}

\* The error of a failed upload is displayed.
UploadFailed == error # Null /\ error[1] \in ParseFailures

\* C27: in every state in which the error of a failed upload is displayed
\* the page holds no parsed data: eventData is null.
C27_FailedUploadHoldsNoData ==
    (pc = "page" /\ UploadFailed) => eventData = Null

\* C27 up to the first successful upload: eventData is written only by an
\* upload that parseExcel returned data for, and is null until then.
C27_HoldsBeforeFirstSuccess ==
    [][(eventData' # eventData)
          => (/\ upload # Null
              /\ ~parseExcel(upload[1]).threw
              /\ eventData' = Some(parseExcel(upload[1]).value))]_vars

\* A window is opened or a workbook is written by the step.
ComposesOrExports ==
    /\ effect' # Null
    /\ effect'[1].kind \in {"window", "workbook"}
    /\ effect' # effect

\* C28: a mail-compose window is opened and a report is exported only
\* while eventData is not null, and the mail preview modal is never shown
\* while eventData is null.
C28_ActsOnlyOnParsedData ==
    /\ [](showMailModal => eventData # Null)
    /\ [][ComposesOrExports => (eventData # Null /\ eventData' # Null)]_vars

\* Witness of C28: the preview modal is shown for a parsed file and the
\* last effect of the page is a compose window.
C28_WitnessPreviewAndWindow ==
    /\ pc = "page"
    /\ showMailModal
    /\ eventData # Null
    /\ effect # Null
    /\ effect[1].kind = "window"

\* C29: in no state of the page are the error alert and the success alert
\* both set.
C29_AlertsMutuallyExclusive ==
    pc = "page" => ~(error # Null /\ success # Null)

\* C29 at the start of an upload: the step that starts loading leaves both
\* alerts cleared.
C29_HoldsWhenUploadStarts ==
    [][(~isLoading /\ isLoading') => (error' = Null /\ success' = Null)]_vars

=============================================================================
